---- MODULE Spec2Model ----
(***************************************************************************)
(* Ride-sharing backend (rides, trip requests, offers, bookings and the    *)
(* idempotency ledger) as a state machine.                                  *)
(*                                                                          *)
(* Every route handler is a process; one action is one awaited database     *)
(* statement of the handler together with the local code that follows it.   *)
(* The database is PostgreSQL at its default isolation (READ COMMITTED):    *)
(*   - db is the committed state, ws[p] the uncommitted writes of the       *)
(*     interactive transaction of request p; a statement of p reads         *)
(*     Apply(db, ws[p]);                                                    *)
(*   - a row written by an open transaction is locked until that            *)
(*     transaction ends, and a statement that must write it (or whose       *)
(*     unique-index check meets it) waits;                                  *)
(*   - a cycle of waiting transactions is broken by the database, which     *)
(*     aborts one of them;                                                  *)
(*   - the last statement of a transaction is taken together with COMMIT.   *)
(* user.upsert touches a table no other statement reads; it is taken        *)
(* together with the read that precedes it.                                 *)
(***************************************************************************)
EXTENDS Integers, FiniteSets, Sequences, TLC

VARIABLES db, ws, pc, req, loc, res, now, tform

vars == <<db, ws, pc, req, loc, res, now, tform>>

\* ---------------------------------------------------------------- bounds
NProcs == 3
MaxTime == 1
NKeys == 2

\* ------------------------------------------------------- program constants
MaxSeatsBooked == 8
MinSeatsBooked == 1
Null == -1

\* ------------------------------------------------------------- universes
Procs == 1..NProcs
SeedId == 0
Unissued == NProcs + 1
SecondSeedId == NProcs + 2
Ids == {SeedId} \cup Procs \cup {Unissued} \cup {SecondSeedId}
Users == {"u1", "u2", "u3"}
Keys == 1..NKeys
Kinds == {"RIDE", "TRIP_REQUEST", "OFFER", "BOOKING"}
Triples == Users \X Keys \X Kinds
Tables == {"rides", "trs", "offers", "bookings", "idem", "users"}
SeedSeatsTotal == 4
SeedDepartAt == 1
SeatChoices == {2, 3}

NoRow == [status |-> "NONE"]
NoRes == [code |-> 0, id |-> Null, msg |-> ""]
NoReq == [op |-> "none", user |-> "", key |-> 0, target |-> Null, seats |-> 0, price |-> 0]
NoLoc == [now |-> 0, rideId |-> Null, seats |-> 0, status |-> "", tr |-> Null,
          driver |-> "", rider |-> "", price |-> 0, caught |-> ""]
EmptyWs == [t \in Tables |-> <<>>]

\* ------------------------------------------------------------ row shapes
RideRow(driver, total, departAt) ==
    [status |-> "ACTIVE", driver |-> driver, seatsTotal |-> total,
     seatsAvailable |-> total, departAt |-> departAt]

TripRequestRow(rider) == [status |-> "ACTIVE", rider |-> rider]

OfferRow(tr, driver, rider, seats, price) ==
    [status |-> "PENDING", tr |-> tr, driver |-> driver, rider |-> rider,
     seats |-> seats, price |-> price]

BookingRow(rideId, tr, driver, rider, seats, price) ==
    [status |-> "CONFIRMED", rideId |-> rideId, tr |-> tr, driver |-> driver,
     rider |-> rider, seats |-> seats, price |-> price]

IdemRow(kind, id) ==
    [status |-> "ROW", kind |-> kind,
     rideId |-> IF kind = "RIDE" THEN id ELSE Null,
     tripRequestId |-> IF kind = "TRIP_REQUEST" THEN id ELSE Null,
     offerId |-> IF kind = "OFFER" THEN id ELSE Null,
     bookingId |-> IF kind = "BOOKING" THEN id ELSE Null]

UserRow == [status |-> "ROW"]

\* --------------------------------------------------- transaction plumbing
\* the committed state d overlaid with the uncommitted writes w
Apply(d, w) ==
    [t \in DOMAIN d |->
        [id \in DOMAIN d[t] |-> IF id \in DOMAIN w[t] THEN w[t][id] ELSE d[t][id]]]

\* what a statement of p's transaction reads
View(p) == Apply(db, ws[p])

\* write row id of table t in the write set w
Put(w, t, id, row) == [w EXCEPT ![t] = (id :> row) @@ @]

\* the open transactions, other than p's, that hold the lock of row id of t
Lockers(p, t, id) == {q \in Procs \ {p} : id \in DOMAIN ws[q][t]}

\* user.upsert: an autocommitted insert-or-update of the caller's user row
Upsert(d, user) == [d EXCEPT !.users[user] = UserRow]

\* ---------------------------------------------------- the unique indexes
\* booking_active_unique ON bookings(ride_id, rider_user_id) WHERE status = 'CONFIRMED'
\* (a NULL ride_id never equals another: matched bookings are not covered)
InBookingActive(row, rideId, rider) ==
    /\ row.status = "CONFIRMED"
    /\ rideId # Null
    /\ row.rideId = rideId
    /\ row.rider = rider

\* offer_trip_request_accepted_unique ON offers(trip_request_id) WHERE status = 'ACCEPTED'
InOfferAccepted(row, tr) ==
    /\ row.status = "ACCEPTED"
    /\ row.tr = tr

\* offer_active_per_driver_request ON offers(trip_request_id, driver_user_id)
\* WHERE status IN ('PENDING', 'ACCEPTED')
InOfferActive(row, tr, driver) ==
    /\ row.status \in {"PENDING", "ACCEPTED"}
    /\ row.tr = tr
    /\ row.driver = driver

\* the transactions an insert of (rideId, rider) into booking_active_unique waits for:
\* those with an uncommitted change of a row that is, or was, in the index under that key
BookingActiveWaits(p, rideId, rider) ==
    {q \in Procs \ {p} : \E id \in DOMAIN ws[q]["bookings"] :
        \/ InBookingActive(ws[q]["bookings"][id], rideId, rider)
        \/ InBookingActive(db["bookings"][id], rideId, rider)}

\* variant: booking_active_unique does not exist
BookingActiveTaken_IndexDropped(p, self, rideId, rider) == FALSE

\* variant: the index covers the bookings of every status
BookingActiveTaken_AnyStatus(p, self, rideId, rider) ==
    \E id \in Ids \ {self} :
        /\ View(p)["bookings"][id] # NoRow
        /\ View(p)["bookings"][id].rideId = rideId
        /\ View(p)["bookings"][id].rider = rider

BookingActiveTaken(p, self, rideId, rider) ==
    \E id \in Ids \ {self} : InBookingActive(View(p)["bookings"][id], rideId, rider)

\* (the new version of a row is entered in the indexes once its own check has passed)
OfferAcceptedWaits(p, tr) ==
    {q \in Procs \ {p} : \E id \in DOMAIN ws[q]["offers"] :
        \/ pc[q] # "ao_idx" /\ InOfferAccepted(ws[q]["offers"][id], tr)
        \/ InOfferAccepted(db["offers"][id], tr)}

\* variant: offer_trip_request_accepted_unique does not exist
OfferAcceptedTaken_IndexDropped(p, self, tr) == FALSE

OfferAcceptedTaken(p, self, tr) ==
    \E id \in Ids \ {self} : InOfferAccepted(View(p)["offers"][id], tr)

OfferActiveWaits(p, tr, driver) ==
    {q \in Procs \ {p} : \E id \in DOMAIN ws[q]["offers"] :
        \/ pc[q] # "ao_idx" /\ InOfferActive(ws[q]["offers"][id], tr, driver)
        \/ InOfferActive(db["offers"][id], tr, driver)}

\* variant: offer_active_per_driver_request does not exist
OfferActiveTaken_IndexDropped(p, self, tr, driver) == FALSE

OfferActiveTaken(p, self, tr, driver) ==
    \E id \in Ids \ {self} : InOfferActive(View(p)["offers"][id], tr, driver)

\* idempotency_keys_user_id_idempotency_key_entity_type_key
\* ON idempotency_keys(user_id, idempotency_key, entity_type)
IdemWaits(p, triple) == Lockers(p, "idem", triple)

IdemTaken_IndexDropped(p, triple) == FALSE

IdemTaken(p, triple) ==
    View(p)["idem"][triple] # NoRow

\* ------------------------------------------------ the P2002 error's target
\* err.meta.target of a unique violation is, depending on the database driver, the
\* name of the violated index (tform = "index") or the list of its columns
\* (tform = "fields"); the handlers test it with includes() and ===.
TargetIncludesIdempotencyKeys(index) ==
    tform = "index" /\ index = "idempotency_keys_user_id_idempotency_key_entity_type_key"

TargetIsOfferActive(index) ==
    tform = "index" /\ index = "offer_active_per_driver_request"

\* ------------------------------------------------------------- responses
Created(id) == [code |-> 201, id |-> id, msg |-> ""]
Replay(id) == [code |-> 200, id |-> id, msg |-> ""]
Ok(id, msg) == [code |-> 200, id |-> id, msg |-> msg]
Err(code, msg) == [code |-> code, id |-> Null, msg |-> msg]

\* the request ends: its transaction (if any) is closed and the response is sent
Finish(p, r) ==
    /\ pc' = [pc EXCEPT ![p] = "done"]
    /\ res' = [res EXCEPT ![p] = r]
    /\ ws' = [ws EXCEPT ![p] = EmptyWs]

Goto(p, label) == pc' = [pc EXCEPT ![p] = label]

\* the rows the updateMany of AcceptOffer step 10 selects
OtherPending(p) ==
    {id \in Ids : /\ View(p)["offers"][id].status = "PENDING"
                  /\ View(p)["offers"][id].tr = loc[p].tr
                  /\ id # req[p].target}

\* the rows the booking.updateMany of CancelOffer selects
ConfirmedOf(p) ==
    {id \in Ids : /\ View(p)["bookings"][id].status = "CONFIRMED"
                  /\ View(p)["bookings"][id].tr = loc[p].tr}

\* overwrite the status of the rows S of table t in the write set w
RECURSIVE SetStatus(_, _, _, _, _)
SetStatus(w, v, t, S, status) ==
    IF S = {} THEN w
    ELSE LET id == CHOOSE x \in S : TRUE
         IN  SetStatus(Put(w, t, id, [v[t][id] EXCEPT !.status = status]),
                       v, t, S \ {id}, status)

\* ------------------------------------------------------ waiting and deadlock
\* the transactions the next statement of p waits for (row locks it needs, unique
\* index entries whose fate is undecided)
WaitsFor(p) ==
    CASE pc[p] = "bk_decr" ->
            LET r == db["rides"][req[p].target]
            IN  IF /\ r # NoRow
                   /\ r.status = "ACTIVE"
                   /\ r.departAt > now
                   /\ r.seatsAvailable >= req[p].seats
                THEN Lockers(p, "rides", req[p].target) ELSE {}
      [] pc[p] = "bk_ins" -> BookingActiveWaits(p, req[p].target, req[p].user)
      [] pc[p] = "bk_idem" -> IdemWaits(p, <<req[p].user, req[p].key, "BOOKING">>)
      [] pc[p] = "cb_upd" -> Lockers(p, "bookings", req[p].target)
      [] pc[p] = "cb_seat" ->
            IF loc[p].rideId = Null THEN {} ELSE Lockers(p, "rides", loc[p].rideId)
      [] pc[p] = "cr_idem" -> IdemWaits(p, <<req[p].user, req[p].key, "RIDE">>)
      [] pc[p] = "ct_idem" -> IdemWaits(p, <<req[p].user, req[p].key, "TRIP_REQUEST">>)
      [] pc[p] = "co_ins" -> OfferActiveWaits(p, req[p].target, req[p].user)
      [] pc[p] = "co_idem" -> IdemWaits(p, <<req[p].user, req[p].key, "OFFER">>)
      [] pc[p] = "ao_upd" -> Lockers(p, "offers", req[p].target)
      [] pc[p] = "ao_idx" ->
            OfferAcceptedWaits(p, loc[p].tr)
            \cup OfferActiveWaits(p, loc[p].tr, loc[p].driver)
      [] pc[p] = "ao_tr" -> Lockers(p, "trs", loc[p].tr)
      [] pc[p] = "ao_cancel" ->
            UNION {Lockers(p, "offers", id) : id \in OtherPending(p)}
      [] pc[p] = "xo_upd" -> Lockers(p, "offers", req[p].target)
      [] pc[p] = "xo_book" ->
            UNION {Lockers(p, "bookings", id) : id \in ConfirmedOf(p)}
      [] pc[p] = "xo_tr" -> Lockers(p, "trs", loc[p].tr)
      [] OTHER -> {}

RECURSIVE WaitReach(_, _)
\* the transactions reachable from the set S in at most n steps of the wait-for graph
WaitReach(S, n) ==
    IF n = 0 THEN S
    ELSE WaitReach(S \cup UNION {WaitsFor(q) : q \in S}, n - 1)

\* p waits, directly or not, for itself
InDeadlock(p) == \E q \in WaitsFor(p) : p \in WaitReach({q}, NProcs)

\* ------------------------------------------------- POST /api/bookings
\* variant: the fast path does not look the key up
CreateBookingFastPath_NoLookup(p) ==
    /\ pc[p] = "bk_fast"
    /\ db' = Upsert(db, req[p].user)
    /\ Goto(p, "bk_decr")
    /\ UNCHANGED <<ws, res, loc, req, now, tform>>

\* 5. idempotency fast path, 6. user upsert
CreateBookingFastPath(p) ==
    /\ pc[p] = "bk_fast"
    /\ LET m == db["idem"][<<req[p].user, req[p].key, "BOOKING">>]
       IN  IF m # NoRow /\ m.bookingId # Null /\ db["bookings"][m.bookingId] # NoRow
           THEN /\ Finish(p, Replay(m.bookingId))
                /\ UNCHANGED <<db, loc>>
           ELSE /\ db' = Upsert(db, req[p].user)
                /\ Goto(p, "bk_decr")
                /\ UNCHANGED <<ws, res, loc>>
    /\ UNCHANGED <<req, now, tform>>

\* variant: the decrement's where clause lacks seatsAvailable >= seatsBooked
CreateBookingDecrement_Unchecked(p) ==
    /\ pc[p] = "bk_decr"
    /\ WaitsFor(p) = {}
    /\ LET r == db["rides"][req[p].target]
           hit == /\ r # NoRow
                  /\ r.status = "ACTIVE"
                  /\ r.departAt > now
       IN  /\ loc' = [loc EXCEPT ![p].now = now]
           /\ IF hit
              THEN /\ ws' = [ws EXCEPT ![p] = Put(@, "rides", req[p].target,
                              [r EXCEPT !.seatsAvailable = @ - req[p].seats])]
                   /\ Goto(p, "bk_ins")
              ELSE /\ Goto(p, "bk_why")
                   /\ UNCHANGED ws
    /\ UNCHANGED <<db, req, res, now, tform>>

\* variant: the decrement does not test the departure time
CreateBookingDecrement_IgnoresDeparture(p) ==
    /\ pc[p] = "bk_decr"
    /\ WaitsFor(p) = {}
    /\ LET r == db["rides"][req[p].target]
           hit == /\ r # NoRow
                  /\ r.status = "ACTIVE"
                  /\ r.seatsAvailable >= req[p].seats
       IN  /\ loc' = [loc EXCEPT ![p].now = now]
           /\ IF hit
              THEN /\ ws' = [ws EXCEPT ![p] = Put(@, "rides", req[p].target,
                              [r EXCEPT !.seatsAvailable = @ - req[p].seats])]
                   /\ Goto(p, "bk_ins")
              ELSE /\ Goto(p, "bk_why")
                   /\ UNCHANGED ws
    /\ UNCHANGED <<db, req, res, now, tform>>

\* 7.A the conditional decrement: updateMany on the ride, count 0 or 1
CreateBookingDecrement(p) ==
    /\ pc[p] = "bk_decr"
    /\ WaitsFor(p) = {}
    /\ LET r == db["rides"][req[p].target]
           hit == /\ r # NoRow
                  /\ r.status = "ACTIVE"
                  /\ r.departAt > now
                  /\ r.seatsAvailable >= req[p].seats
       IN  /\ loc' = [loc EXCEPT ![p].now = now]
           /\ IF hit
              THEN /\ ws' = [ws EXCEPT ![p] = Put(@, "rides", req[p].target,
                              [r EXCEPT !.seatsAvailable = @ - req[p].seats])]
                   /\ Goto(p, "bk_ins")
              ELSE /\ Goto(p, "bk_why")
                   /\ UNCHANGED ws
    /\ UNCHANGED <<db, req, res, now, tform>>

\* variant: the re-read does not classify the shortage of seats
CreateBookingWhy_NoSeatCheck(p) ==
    /\ pc[p] = "bk_why"
    /\ LET r == View(p)["rides"][req[p].target]
       IN  Finish(p,
             IF r = NoRow THEN Err(404, "Ride not found.")
             ELSE IF r.status # "ACTIVE" THEN Err(409, "Ride is not active.")
             ELSE IF r.departAt <= loc[p].now THEN Err(409, "Ride has departed.")
             ELSE Err(500, "Booking failed."))
    /\ UNCHANGED <<db, req, loc, now, tform>>

\* the re-read after a decrement that matched no row, and the mapping of its error
CreateBookingWhy(p) ==
    /\ pc[p] = "bk_why"
    /\ LET r == View(p)["rides"][req[p].target]
       IN  Finish(p,
             IF r = NoRow THEN Err(404, "Ride not found.")
             ELSE IF r.status # "ACTIVE" THEN Err(409, "Ride is not active.")
             ELSE IF r.departAt <= loc[p].now THEN Err(409, "Ride has departed.")
             ELSE IF r.seatsAvailable < req[p].seats
                  THEN Err(409, "Not enough seats available.")
             ELSE Err(500, "Booking failed."))
    /\ UNCHANGED <<db, req, loc, now, tform>>

\* variant: the decrement is committed although the insert was refused
CreateBookingInsert_KeepsDecrement(p) ==
    /\ pc[p] = "bk_ins"
    /\ WaitsFor(p) = {}
    /\ IF BookingActiveTaken(p, p, req[p].target, req[p].user)
       THEN /\ db' = Apply(db, ws[p])
            /\ Finish(p, Err(409, "You already have a confirmed booking for this ride."))
            /\ loc' = [loc EXCEPT ![p].caught = "P2002"]
       ELSE /\ ws' = [ws EXCEPT ![p] = Put(@, "bookings", p,
                       BookingRow(req[p].target, Null, "", req[p].user, req[p].seats, Null))]
            /\ Goto(p, "bk_idem")
            /\ UNCHANGED <<db, res, loc>>
    /\ UNCHANGED <<req, now, tform>>

\* 7.B booking.create, checked by booking_active_unique
CreateBookingInsert(p) ==
    /\ pc[p] = "bk_ins"
    /\ WaitsFor(p) = {}
    /\ IF BookingActiveTaken(p, p, req[p].target, req[p].user)
       THEN /\ Finish(p, Err(409, "You already have a confirmed booking for this ride."))
            /\ loc' = [loc EXCEPT ![p].caught = "P2002"]
       ELSE /\ ws' = [ws EXCEPT ![p] = Put(@, "bookings", p,
                       BookingRow(req[p].target, Null, "", req[p].user, req[p].seats, Null))]
            /\ Goto(p, "bk_idem")
            /\ UNCHANGED <<res, loc>>
    /\ UNCHANGED <<db, req, now, tform>>

\* 7.C idempotencyKey.create and COMMIT; a P2002 rolls the transaction back
CreateBookingIdem(p) ==
    /\ pc[p] = "bk_idem"
    /\ WaitsFor(p) = {}
    /\ LET triple == <<req[p].user, req[p].key, "BOOKING">>
       IN  IF IdemTaken(p, triple)
           THEN /\ IF TargetIncludesIdempotencyKeys(
                         "idempotency_keys_user_id_idempotency_key_entity_type_key")
                   THEN /\ Goto(p, "bk_retry")
                        /\ ws' = [ws EXCEPT ![p] = EmptyWs]
                        /\ UNCHANGED res
                   ELSE Finish(p, Err(409,
                                "You already have a confirmed booking for this ride."))
                /\ loc' = [loc EXCEPT ![p].caught = "P2002"]
                /\ UNCHANGED db
           ELSE /\ db' = Apply(db, Put(ws[p], "idem", triple, IdemRow("BOOKING", p)))
                /\ Finish(p, Created(p))
                /\ UNCHANGED loc
    /\ UNCHANGED <<req, now, tform>>

\* the ledger re-read after losing the idempotency race
CreateBookingRetry(p) ==
    /\ pc[p] = "bk_retry"
    /\ LET m == db["idem"][<<req[p].user, req[p].key, "BOOKING">>]
       IN  Finish(p,
             IF m # NoRow /\ m.bookingId # Null /\ db["bookings"][m.bookingId] # NoRow
             THEN Replay(m.bookingId)
             ELSE Err(409, "You already have a confirmed booking for this ride."))
    /\ UNCHANGED <<db, req, loc, now, tform>>

\* ------------------------------------- POST /api/bookings/:bookingId/cancel
\* A. read the booking, B. authorization, C. already-cancelled shortcut
CancelBookingRead(p) ==
    /\ pc[p] = "cb_read"
    /\ LET b == db["bookings"][req[p].target]
       IN  IF b = NoRow
           THEN Finish(p, Err(404, "Booking not found.")) /\ UNCHANGED loc
           ELSE IF b.rider # req[p].user
           THEN Finish(p, Err(403, "You are not authorized to cancel this booking."))
                /\ UNCHANGED loc
           ELSE IF b.status = "CANCELLED"
           THEN Finish(p, Ok(req[p].target, "Booking already cancelled.")) /\ UNCHANGED loc
           ELSE /\ loc' = [loc EXCEPT ![p].rideId = b.rideId, ![p].seats = b.seats]
                /\ Goto(p, "cb_upd")
                /\ UNCHANGED <<ws, res>>
    /\ UNCHANGED <<db, req, now, tform>>

\* D. booking.update: status CANCELLED, whatever the status is by now
CancelBookingUpdate(p) ==
    /\ pc[p] = "cb_upd"
    /\ WaitsFor(p) = {}
    /\ ws' = [ws EXCEPT ![p] = Put(@, "bookings", req[p].target,
                [View(p)["bookings"][req[p].target] EXCEPT !.status = "CANCELLED"])]
    /\ Goto(p, "cb_seat")
    /\ UNCHANGED <<db, req, loc, res, now, tform>>

\* variant: the increment is by one seat, whatever the booking's seatsBooked
CancelBookingSeats_OneSeat(p) ==
    /\ pc[p] = "cb_seat"
    /\ WaitsFor(p) = {}
    /\ IF loc[p].rideId = Null \/ View(p)["rides"][loc[p].rideId] = NoRow
       THEN Finish(p, Err(500, "An unexpected error occurred.")) /\ UNCHANGED db
       ELSE /\ db' = Apply(db, Put(ws[p], "rides", loc[p].rideId,
                       [View(p)["rides"][loc[p].rideId] EXCEPT
                           !.seatsAvailable = @ + 1]))
            /\ Finish(p, Ok(req[p].target, "Booking cancelled successfully."))
    /\ UNCHANGED <<req, loc, now, tform>>

\* variant: a booking without a ride is cancelled, the increment being skipped
CancelBookingSeats_SkipsMissingRide(p) ==
    /\ pc[p] = "cb_seat"
    /\ WaitsFor(p) = {}
    /\ IF loc[p].rideId = Null \/ View(p)["rides"][loc[p].rideId] = NoRow
       THEN db' = Apply(db, ws[p])
       ELSE db' = Apply(db, Put(ws[p], "rides", loc[p].rideId,
                       [View(p)["rides"][loc[p].rideId] EXCEPT
                           !.seatsAvailable = @ + loc[p].seats]))
    /\ Finish(p, Ok(req[p].target, "Booking cancelled successfully."))
    /\ UNCHANGED <<req, loc, now, tform>>

\* E. ride.update: increment by the seats read in A, and COMMIT; a booking without
\* a ride makes the update throw, which rolls the transaction back
CancelBookingSeats(p) ==
    /\ pc[p] = "cb_seat"
    /\ WaitsFor(p) = {}
    /\ IF loc[p].rideId = Null \/ View(p)["rides"][loc[p].rideId] = NoRow
       THEN Finish(p, Err(500, "An unexpected error occurred.")) /\ UNCHANGED db
       ELSE /\ db' = Apply(db, Put(ws[p], "rides", loc[p].rideId,
                       [View(p)["rides"][loc[p].rideId] EXCEPT
                           !.seatsAvailable = @ + loc[p].seats]))
            /\ Finish(p, Ok(req[p].target, "Booking cancelled successfully."))
    /\ UNCHANGED <<req, loc, now, tform>>

\* ------------------------------------------------------- POST /api/rides
\* variant: the lookup matches the key and the kind, whoever the actor is
CreateRideFastPath_AnyActor(p) ==
    /\ pc[p] = "cr_fast"
    /\ LET hits == {u \in Users : db["idem"][<<u, req[p].key, "RIDE">>] # NoRow}
       IN  IF hits # {}
           THEN /\ \E u \in hits :
                     Finish(p, Replay(db["idem"][<<u, req[p].key, "RIDE">>].rideId))
                /\ UNCHANGED db
           ELSE /\ db' = Upsert(db, req[p].user)
                /\ Goto(p, "cr_ins")
                /\ UNCHANGED <<ws, res>>
    /\ UNCHANGED <<req, loc, now, tform>>

\* 4. idempotency check: any ledger row answers with its ride; 5. user upsert
CreateRideFastPath(p) ==
    /\ pc[p] = "cr_fast"
    /\ LET m == db["idem"][<<req[p].user, req[p].key, "RIDE">>]
       IN  IF m # NoRow
           THEN Finish(p, Replay(m.rideId)) /\ UNCHANGED db
           ELSE /\ db' = Upsert(db, req[p].user)
                /\ Goto(p, "cr_ins")
                /\ UNCHANGED <<ws, res>>
    /\ UNCHANGED <<req, loc, now, tform>>

\* 6. ride.create, with seatsAvailable = seatsTotal
CreateRideInsert(p) ==
    /\ pc[p] = "cr_ins"
    /\ ws' = [ws EXCEPT ![p] = Put(@, "rides", p,
                RideRow(req[p].user, req[p].seats, SeedDepartAt))]
    /\ Goto(p, "cr_idem")
    /\ UNCHANGED <<db, req, loc, res, now, tform>>

\* variant: the ride insert is not rolled back with the refused ledger row
CreateRideIdem_NoRollback(p) ==
    /\ pc[p] = "cr_idem"
    /\ WaitsFor(p) = {}
    /\ LET triple == <<req[p].user, req[p].key, "RIDE">>
       IN  IF IdemTaken(p, triple)
           THEN /\ Goto(p, "cr_retry")
                /\ db' = Apply(db, ws[p])
                /\ ws' = [ws EXCEPT ![p] = EmptyWs]
                /\ loc' = [loc EXCEPT ![p].caught = "P2002"]
                /\ UNCHANGED res
           ELSE /\ UNCHANGED loc
                /\ db' = Apply(db, Put(ws[p], "idem", triple, IdemRow("RIDE", p)))
                /\ Finish(p, Created(p))
    /\ UNCHANGED <<req, now, tform>>

\* idempotencyKey.create and COMMIT; a P2002 rolls the transaction back
CreateRideIdem(p) ==
    /\ pc[p] = "cr_idem"
    /\ WaitsFor(p) = {}
    /\ LET triple == <<req[p].user, req[p].key, "RIDE">>
       IN  IF IdemTaken(p, triple)
           THEN /\ Goto(p, "cr_retry")
                /\ ws' = [ws EXCEPT ![p] = EmptyWs]
                /\ loc' = [loc EXCEPT ![p].caught = "P2002"]
                /\ UNCHANGED <<db, res>>
           ELSE /\ UNCHANGED loc
                /\ db' = Apply(db, Put(ws[p], "idem", triple, IdemRow("RIDE", p)))
                /\ Finish(p, Created(p))
    /\ UNCHANGED <<req, now, tform>>

\* the ledger re-read after losing the race
CreateRideRetry(p) ==
    /\ pc[p] = "cr_retry"
    /\ LET m == db["idem"][<<req[p].user, req[p].key, "RIDE">>]
       IN  Finish(p,
             IF m # NoRow THEN Replay(m.rideId)
             ELSE Err(500, "An unexpected error occurred while creating the ride."))
    /\ UNCHANGED <<db, req, loc, now, tform>>

\* ------------------------------------------------ POST /api/trip-requests
\* 4. idempotency check; a ledger row without its trip request is deleted;
\* 5. user upsert
CreateTripRequestFastPath(p) ==
    /\ pc[p] = "ct_fast"
    /\ LET triple == <<req[p].user, req[p].key, "TRIP_REQUEST">>
           m == db["idem"][triple]
       IN  IF m # NoRow /\ m.tripRequestId # Null /\ db["trs"][m.tripRequestId] # NoRow
           THEN Finish(p, Replay(m.tripRequestId)) /\ UNCHANGED db
           ELSE /\ db' = Upsert([db EXCEPT !.idem[triple] = NoRow], req[p].user)
                /\ Goto(p, "ct_ins")
                /\ UNCHANGED <<ws, res>>
    /\ UNCHANGED <<req, loc, now, tform>>

\* 6. tripRequest.create
CreateTripRequestInsert(p) ==
    /\ pc[p] = "ct_ins"
    /\ ws' = [ws EXCEPT ![p] = Put(@, "trs", p, TripRequestRow(req[p].user))]
    /\ Goto(p, "ct_idem")
    /\ UNCHANGED <<db, req, loc, res, now, tform>>

\* idempotencyKey.create and COMMIT; a P2002 rolls the transaction back
CreateTripRequestIdem(p) ==
    /\ pc[p] = "ct_idem"
    /\ WaitsFor(p) = {}
    /\ LET triple == <<req[p].user, req[p].key, "TRIP_REQUEST">>
       IN  IF IdemTaken(p, triple)
           THEN /\ Goto(p, "ct_retry")
                /\ ws' = [ws EXCEPT ![p] = EmptyWs]
                /\ loc' = [loc EXCEPT ![p].caught = "P2002"]
                /\ UNCHANGED <<db, res>>
           ELSE /\ UNCHANGED loc
                /\ db' = Apply(db, Put(ws[p], "idem", triple, IdemRow("TRIP_REQUEST", p)))
                /\ Finish(p, Created(p))
    /\ UNCHANGED <<req, now, tform>>

\* the ledger re-read after losing the race
CreateTripRequestRetry(p) ==
    /\ pc[p] = "ct_retry"
    /\ LET m == db["idem"][<<req[p].user, req[p].key, "TRIP_REQUEST">>]
       IN  Finish(p,
             IF m = NoRow
             THEN Err(500, "An unexpected error occurred while creating the trip request.")
             ELSE IF m.tripRequestId = Null \/ db["trs"][m.tripRequestId] = NoRow
             THEN Err(410, "The trip request associated with this Idempotency-Key no longer exists.")
             ELSE Replay(m.tripRequestId))
    /\ UNCHANGED <<db, req, loc, now, tform>>

\* ------------------------------ POST /api/trip-requests/:tripRequestId/offers
\* 4. idempotency fast path; a ledger row without its offer is deleted
CreateOfferFastPath_Skipped(p) ==
    /\ pc[p] = "co_fast"
    /\ Goto(p, "co_tr")
    /\ UNCHANGED <<db, ws, res, req, loc, now, tform>>

\* variant: a ledger row whose offer is CANCELLED is treated as stale
CreateOfferFastPath_CancelledIsStale(p) ==
    /\ pc[p] = "co_fast"
    /\ LET triple == <<req[p].user, req[p].key, "OFFER">>
           m == db["idem"][triple]
       IN  IF m # NoRow /\ m.offerId # Null /\ db["offers"][m.offerId] # NoRow
                /\ db["offers"][m.offerId].status # "CANCELLED"
           THEN Finish(p, Replay(m.offerId)) /\ UNCHANGED db
           ELSE /\ db' = [db EXCEPT !.idem[triple] = NoRow]
                /\ Goto(p, "co_tr")
                /\ UNCHANGED <<ws, res>>
    /\ UNCHANGED <<req, loc, now, tform>>

CreateOfferFastPath(p) ==
    /\ pc[p] = "co_fast"
    /\ LET triple == <<req[p].user, req[p].key, "OFFER">>
           m == db["idem"][triple]
       IN  IF m # NoRow /\ m.offerId # Null /\ db["offers"][m.offerId] # NoRow
           THEN Finish(p, Replay(m.offerId)) /\ UNCHANGED db
           ELSE /\ db' = [db EXCEPT !.idem[triple] = NoRow]
                /\ Goto(p, "co_tr")
                /\ UNCHANGED <<ws, res>>
    /\ UNCHANGED <<req, loc, now, tform>>

\* 5. the trip request: existence, ACTIVE, not the caller's own
CreateOfferTripRequest(p) ==
    /\ pc[p] = "co_tr"
    /\ LET t == db["trs"][req[p].target]
       IN  IF t = NoRow
           THEN Finish(p, Err(404, "Trip request not found.")) /\ UNCHANGED loc
           ELSE IF t.status # "ACTIVE"
           THEN Finish(p, Err(409, "Trip request is no longer active.")) /\ UNCHANGED loc
           ELSE IF t.rider = req[p].user
           THEN Finish(p, Err(409, "You cannot offer a ride for your own request."))
                /\ UNCHANGED loc
           ELSE /\ loc' = [loc EXCEPT ![p].rider = t.rider]
                /\ Goto(p, "co_offer")
                /\ UNCHANGED <<ws, res>>
    /\ UNCHANGED <<db, req, now, tform>>

\* the optimistic guard: one PENDING or ACCEPTED offer per driver and request;
\* 6. user upsert
CreateOfferExisting(p) ==
    /\ pc[p] = "co_offer"
    /\ IF \E id \in Ids : InOfferActive(db["offers"][id], req[p].target, req[p].user)
       THEN /\ Finish(p, Err(409, "You already have an active offer for this trip request."))
            /\ UNCHANGED db
       ELSE /\ db' = Upsert(db, req[p].user)
            /\ Goto(p, "co_ins")
            /\ UNCHANGED <<ws, res>>
    /\ UNCHANGED <<req, loc, now, tform>>

\* 7. offer.create, checked by offer_active_per_driver_request
CreateOfferInsert(p) ==
    /\ pc[p] = "co_ins"
    /\ WaitsFor(p) = {}
    /\ IF OfferActiveTaken(p, p, req[p].target, req[p].user)
       THEN /\ IF TargetIsOfferActive("offer_active_per_driver_request")
               THEN Finish(p, Err(409,
                            "You already have an active offer for this trip request."))
               ELSE /\ Goto(p, "co_retry")
                    /\ ws' = [ws EXCEPT ![p] = EmptyWs]
                    /\ UNCHANGED res
            /\ loc' = [loc EXCEPT ![p].caught = "P2002"]
       ELSE /\ ws' = [ws EXCEPT ![p] = Put(@, "offers", p,
                       OfferRow(req[p].target, req[p].user, loc[p].rider,
                                req[p].seats, req[p].price))]
            /\ Goto(p, "co_idem")
            /\ UNCHANGED <<res, loc>>
    /\ UNCHANGED <<db, req, now, tform>>

\* idempotencyKey.create and COMMIT; a P2002 rolls the transaction back
CreateOfferIdem(p) ==
    /\ pc[p] = "co_idem"
    /\ WaitsFor(p) = {}
    /\ LET triple == <<req[p].user, req[p].key, "OFFER">>
       IN  IF IdemTaken(p, triple)
           THEN /\ IF TargetIsOfferActive(
                         "idempotency_keys_user_id_idempotency_key_entity_type_key")
                   THEN Finish(p, Err(409,
                                "You already have an active offer for this trip request."))
                   ELSE /\ Goto(p, "co_retry")
                        /\ ws' = [ws EXCEPT ![p] = EmptyWs]
                        /\ UNCHANGED res
                /\ loc' = [loc EXCEPT ![p].caught = "P2002"]
                /\ UNCHANGED db
           ELSE /\ db' = Apply(db, Put(ws[p], "idem", triple, IdemRow("OFFER", p)))
                /\ Finish(p, Created(p))
                /\ UNCHANGED loc
    /\ UNCHANGED <<req, now, tform>>

\* the ledger re-read after a P2002 that is not the active-offer index
CreateOfferRetry(p) ==
    /\ pc[p] = "co_retry"
    /\ LET m == db["idem"][<<req[p].user, req[p].key, "OFFER">>]
       IN  Finish(p,
             IF m # NoRow /\ m.offerId # Null /\ db["offers"][m.offerId] # NoRow
             THEN Replay(m.offerId)
             ELSE Err(500, "An unexpected error occurred."))
    /\ UNCHANGED <<db, req, loc, now, tform>>

\* ---------------------------------------- POST /api/offers/:offerId/accept
\* variant: no authorization guard
AcceptOfferRead_NoAuth(p) ==
    /\ pc[p] = "ao_read"
    /\ LET o == db["offers"][req[p].target]
       IN  IF o = NoRow
           THEN Finish(p, Err(404, "Offer not found")) /\ UNCHANGED loc
           ELSE IF o.status # "PENDING"
           THEN Finish(p, Err(409, "Conflict: Cannot accept offer in this status"))
                /\ UNCHANGED loc
           ELSE IF db["trs"][o.tr].status # "ACTIVE"
           THEN Finish(p, Err(409, "Conflict: Trip request is no longer active"))
                /\ UNCHANGED loc
           ELSE /\ loc' = [loc EXCEPT ![p].tr = o.tr, ![p].driver = o.driver,
                                      ![p].rider = o.rider, ![p].seats = o.seats,
                                      ![p].price = o.price]
                /\ Goto(p, "ao_first")
                /\ UNCHANGED <<ws, res>>
    /\ UNCHANGED <<db, req, now, tform>>

\* 2. read offer and trip request, 3. authorization, 4./5. state guards
AcceptOfferRead(p) ==
    /\ pc[p] = "ao_read"
    /\ LET o == db["offers"][req[p].target]
       IN  IF o = NoRow
           THEN Finish(p, Err(404, "Offer not found")) /\ UNCHANGED loc
           ELSE IF db["trs"][o.tr].rider # req[p].user
           THEN Finish(p, Err(403, "Forbidden: Only the rider can accept this offer"))
                /\ UNCHANGED loc
           ELSE IF o.status # "PENDING"
           THEN Finish(p, Err(409, "Conflict: Cannot accept offer in this status"))
                /\ UNCHANGED loc
           ELSE IF db["trs"][o.tr].status # "ACTIVE"
           THEN Finish(p, Err(409, "Conflict: Trip request is no longer active"))
                /\ UNCHANGED loc
           ELSE /\ loc' = [loc EXCEPT ![p].tr = o.tr, ![p].driver = o.driver,
                                      ![p].rider = o.rider, ![p].seats = o.seats,
                                      ![p].price = o.price]
                /\ Goto(p, "ao_first")
                /\ UNCHANGED <<ws, res>>
    /\ UNCHANGED <<db, req, now, tform>>

\* variant: the transaction does not look for an ACCEPTED offer
AcceptOfferFindAccepted_Skipped(p) ==
    /\ pc[p] = "ao_first"
    /\ Goto(p, "ao_upd")
    /\ UNCHANGED <<ws, res, db, req, loc, now, tform>>

\* 6. the double-check for an ACCEPTED offer of the trip request
AcceptOfferFindAccepted(p) ==
    /\ pc[p] = "ao_first"
    /\ IF \E id \in Ids : InOfferAccepted(View(p)["offers"][id], loc[p].tr)
       THEN Finish(p, Err(409, "Conflict: This trip request already has an accepted offer"))
       ELSE Goto(p, "ao_upd") /\ UNCHANGED <<ws, res>>
    /\ UNCHANGED <<db, req, loc, now, tform>>

\* 7. offer.update to ACCEPTED, whatever the status is by now: the row is locked
\* and its new version written
AcceptOfferUpdate(p) ==
    /\ pc[p] = "ao_upd"
    /\ WaitsFor(p) = {}
    /\ ws' = [ws EXCEPT ![p] = Put(@, "offers", req[p].target,
                [View(p)["offers"][req[p].target] EXCEPT !.status = "ACCEPTED"])]
    /\ Goto(p, "ao_idx")
    /\ UNCHANGED <<db, req, loc, res, now, tform>>

\* variant: the offer update is committed although an index refused it
AcceptOfferIndex_KeepsUpdate(p) ==
    /\ pc[p] = "ao_idx"
    /\ WaitsFor(p) = {}
    /\ IF \/ OfferAcceptedTaken(p, req[p].target, loc[p].tr)
          \/ OfferActiveTaken(p, req[p].target, loc[p].tr, loc[p].driver)
       THEN /\ db' = Apply(db, ws[p])
            /\ Finish(p, Err(409, "Conflict"))
            /\ loc' = [loc EXCEPT ![p].caught = "P2002"]
       ELSE /\ ws' = [ws EXCEPT ![p] =
                       Put(@, "bookings", p,
                           BookingRow(Null, loc[p].tr, loc[p].driver, loc[p].rider,
                                      loc[p].seats, loc[p].price))]
            /\ Goto(p, "ao_tr")
            /\ UNCHANGED <<db, res, loc>>
    /\ UNCHANGED <<req, now, tform>>

\* 7. (continued) the new version is checked by offer_trip_request_accepted_unique
\* and offer_active_per_driver_request, a violation being a P2002;
\* 8. booking.create (no ride: a row no index constrains)
AcceptOfferIndex(p) ==
    /\ pc[p] = "ao_idx"
    /\ WaitsFor(p) = {}
    /\ IF \/ OfferAcceptedTaken(p, req[p].target, loc[p].tr)
          \/ OfferActiveTaken(p, req[p].target, loc[p].tr, loc[p].driver)
       THEN /\ Finish(p, Err(409, "Conflict"))
            /\ loc' = [loc EXCEPT ![p].caught = "P2002"]
       ELSE /\ ws' = [ws EXCEPT ![p] =
                       Put(@, "bookings", p,
                           BookingRow(Null, loc[p].tr, loc[p].driver, loc[p].rider,
                                      loc[p].seats, loc[p].price))]
            /\ Goto(p, "ao_tr")
            /\ UNCHANGED <<res, loc>>
    /\ UNCHANGED <<db, req, now, tform>>

\* 9. tripRequest.update to CLOSED
AcceptOfferClose(p) ==
    /\ pc[p] = "ao_tr"
    /\ WaitsFor(p) = {}
    /\ ws' = [ws EXCEPT ![p] = Put(@, "trs", loc[p].tr,
                [View(p)["trs"][loc[p].tr] EXCEPT !.status = "CLOSED"])]
    /\ Goto(p, "ao_cancel")
    /\ UNCHANGED <<db, req, loc, res, now, tform>>

\* variant: the transaction commits without cancelling the other PENDING offers
AcceptOfferCancelOthers_LeavesPending(p) ==
    /\ pc[p] = "ao_cancel"
    /\ WaitsFor(p) = {}
    /\ db' = Apply(db, ws[p])
    /\ Finish(p, Ok(p, "accepted"))
    /\ UNCHANGED <<req, loc, now, tform>>

\* 10. offer.updateMany: the other PENDING offers to CANCELLED, and COMMIT
AcceptOfferCancelOthers(p) ==
    /\ pc[p] = "ao_cancel"
    /\ WaitsFor(p) = {}
    /\ db' = Apply(db, SetStatus(ws[p], View(p), "offers", OtherPending(p), "CANCELLED"))
    /\ Finish(p, Ok(p, "accepted"))
    /\ UNCHANGED <<req, loc, now, tform>>

\* ---------------------------------------- POST /api/offers/:offerId/cancel
\* variant: no shortcut for an offer that is already CANCELLED
CancelOfferRead_NoShortcut(p) ==
    /\ pc[p] = "xo_read"
    /\ LET o == db["offers"][req[p].target]
       IN  IF o = NoRow
           THEN Finish(p, Err(404, "Offer not found.")) /\ UNCHANGED loc
           ELSE IF o.driver # req[p].user /\ o.rider # req[p].user
           THEN Finish(p, Err(403, "You are not authorized to cancel this offer."))
                /\ UNCHANGED loc
           ELSE IF o.driver = req[p].user /\ o.status # "PENDING"
           THEN Finish(p, Err(409,
                  "Drivers cannot cancel an offer once it has been accepted."))
                /\ UNCHANGED loc
           ELSE /\ loc' = [loc EXCEPT ![p].status = o.status, ![p].tr = o.tr]
                /\ Goto(p, "xo_upd")
                /\ UNCHANGED <<ws, res>>
    /\ UNCHANGED <<db, req, now, tform>>

\* the offer read before the transaction, 3. authorization and state guards
CancelOfferRead(p) ==
    /\ pc[p] = "xo_read"
    /\ LET o == db["offers"][req[p].target]
       IN  IF o = NoRow
           THEN Finish(p, Err(404, "Offer not found.")) /\ UNCHANGED loc
           ELSE IF o.driver # req[p].user /\ o.rider # req[p].user
           THEN Finish(p, Err(403, "You are not authorized to cancel this offer."))
                /\ UNCHANGED loc
           ELSE IF o.status = "CANCELLED"
           THEN Finish(p, Ok(req[p].target, "CANCELLED")) /\ UNCHANGED loc
           ELSE IF o.driver = req[p].user /\ o.status # "PENDING"
           THEN Finish(p, Err(409,
                  "Drivers cannot cancel an offer once it has been accepted."))
                /\ UNCHANGED loc
           ELSE /\ loc' = [loc EXCEPT ![p].status = o.status, ![p].tr = o.tr]
                /\ Goto(p, "xo_upd")
                /\ UNCHANGED <<ws, res>>
    /\ UNCHANGED <<db, req, now, tform>>

\* variant: the cascade does not depend on the status that was read
CancelOfferUpdate_AlwaysCascades(p) ==
    /\ pc[p] = "xo_upd"
    /\ WaitsFor(p) = {}
    /\ ws' = [ws EXCEPT ![p] = Put(@, "offers", req[p].target,
                [View(p)["offers"][req[p].target] EXCEPT !.status = "CANCELLED"])]
    /\ Goto(p, "xo_book")
    /\ UNCHANGED <<db, res, req, loc, now, tform>>

\* 4. offer.update to CANCELLED, whatever the status is by now; COMMIT unless the
\* status read before the transaction was ACCEPTED
CancelOfferUpdate(p) ==
    /\ pc[p] = "xo_upd"
    /\ WaitsFor(p) = {}
    /\ LET w == Put(ws[p], "offers", req[p].target,
                    [View(p)["offers"][req[p].target] EXCEPT !.status = "CANCELLED"])
       IN  IF loc[p].status = "ACCEPTED"
           THEN /\ ws' = [ws EXCEPT ![p] = w]
                /\ Goto(p, "xo_book")
                /\ UNCHANGED <<db, res>>
           ELSE /\ db' = Apply(db, w)
                /\ Finish(p, Ok(req[p].target, "CANCELLED"))
    /\ UNCHANGED <<req, loc, now, tform>>

\* booking.updateMany: the CONFIRMED bookings of the trip request to CANCELLED
CancelOfferBookings(p) ==
    /\ pc[p] = "xo_book"
    /\ WaitsFor(p) = {}
    /\ ws' = [ws EXCEPT ![p] =
                SetStatus(@, View(p), "bookings", ConfirmedOf(p), "CANCELLED")]
    /\ Goto(p, "xo_tr")
    /\ UNCHANGED <<db, req, loc, res, now, tform>>

\* variant: the trip request is left CLOSED
CancelOfferReopen_StaysClosed(p) ==
    /\ pc[p] = "xo_tr"
    /\ WaitsFor(p) = {}
    /\ db' = Apply(db, ws[p])
    /\ Finish(p, Ok(req[p].target, "CANCELLED"))
    /\ UNCHANGED <<req, loc, now, tform>>

\* tripRequest.update to ACTIVE, and COMMIT
CancelOfferReopen(p) ==
    /\ pc[p] = "xo_tr"
    /\ WaitsFor(p) = {}
    /\ db' = Apply(db, Put(ws[p], "trs", loc[p].tr,
                [View(p)["trs"][loc[p].tr] EXCEPT !.status = "ACTIVE"]))
    /\ Finish(p, Ok(req[p].target, "CANCELLED"))
    /\ UNCHANGED <<req, loc, now, tform>>

\* ------------------------------------------------------------ environment
\* the database breaks a cycle of waiting transactions by aborting one of them;
\* no handler maps that error, so the request ends with 500
DeadlockAbort(p) ==
    /\ InDeadlock(p)
    /\ Finish(p, Err(500, "deadlock detected"))
    /\ loc' = [loc EXCEPT ![p].caught = "40P01"]
    /\ UNCHANGED <<db, req, now, tform>>

\* time passes
Tick ==
    /\ now < MaxTime
    /\ now' = now + 1
    /\ UNCHANGED <<db, ws, pc, req, loc, res, tform>>

\* ------------------------------------------------------------- requests
CreateBookingReq(user, key, ride, seats) ==
    [op |-> "CreateBooking", user |-> user, key |-> key, target |-> ride,
     seats |-> seats, price |-> 0]

CancelBookingReq(user, booking) ==
    [op |-> "CancelBooking", user |-> user, key |-> 0, target |-> booking,
     seats |-> 0, price |-> 0]

CreateOfferReq(user, key, tr, seats, price) ==
    [op |-> "CreateOffer", user |-> user, key |-> key, target |-> tr,
     seats |-> seats, price |-> price]

AcceptOfferReq(user, offer) ==
    [op |-> "AcceptOffer", user |-> user, key |-> 0, target |-> offer,
     seats |-> 0, price |-> 0]

CancelOfferReq(user, offer) ==
    [op |-> "CancelOffer", user |-> user, key |-> 0, target |-> offer,
     seats |-> 0, price |-> 0]

CreateRideReq(user, key, seatsTotal) ==
    [op |-> "CreateRide", user |-> user, key |-> key, target |-> Null,
     seats |-> seatsTotal, price |-> 0]

CreateTripRequestReq(user, key) ==
    [op |-> "CreateTripRequest", user |-> user, key |-> key, target |-> Null,
     seats |-> 0, price |-> 0]

FirstLabel(op) ==
    CASE op = "CreateBooking" -> "bk_fast"
      [] op = "CreateRide" -> "cr_fast"
      [] op = "CreateTripRequest" -> "ct_fast"
      [] op = "CancelBooking" -> "cb_read"
      [] op = "CreateOffer" -> "co_fast"
      [] op = "AcceptOffer" -> "ao_read"
      [] op = "CancelOffer" -> "xo_read"
      [] OTHER -> "done"

\* a request arrives: authenticated, well-formed (rideId a string, seatsBooked an
\* integer within MinSeatsBooked..MaxSeatsBooked, a non-empty Idempotency-Key);
\* requests are numbered in their order of arrival
Arrive(p, r) ==
    /\ pc[p] = "idle"
    /\ \A q \in Procs : q < p => pc[q] # "idle"
    /\ req' = [req EXCEPT ![p] = r]
    /\ Goto(p, FirstLabel(r.op))
    /\ UNCHANGED <<db, ws, loc, res, now, tform>>

\* ids are generated by the database and cannot be guessed: a caller names the id
\* of a row that exists, or an id that was never issued
IssuedIds(t) == {id \in Ids : db[t][id] # NoRow} \cup {Unissued}

\* ------------------------------------------------- rides and bookings only
BookingRiders == {"u1", "u2"}

\* (the riders are interchangeable: only the first of them uses more than one key)
ValidSeats == {n \in SeatChoices : MinSeatsBooked <= n /\ n <= MaxSeatsBooked}

KeysOf(u) == IF u = "u1" THEN Keys ELSE {1}

BookingMenu ==
    UNION {{CreateBookingReq(u, k, SeedId, n) : k \in KeysOf(u), n \in ValidSeats} :
            u \in BookingRiders}
    \cup {CancelBookingReq(u, b) : u \in BookingRiders, b \in IssuedIds("bookings")}

EmptyDb ==
    [rides |-> [id \in Ids |-> NoRow],
     trs |-> [id \in Ids |-> NoRow],
     offers |-> [id \in Ids |-> NoRow],
     bookings |-> [id \in Ids |-> NoRow],
     idem |-> [t \in Triples |-> NoRow],
     users |-> [u \in Users |-> NoRow]]

InitCommon ==
    /\ ws = [p \in Procs |-> EmptyWs]
    /\ pc = [p \in Procs |-> "idle"]
    /\ req = [p \in Procs |-> NoReq]
    /\ loc = [p \in Procs |-> NoLoc]
    /\ res = [p \in Procs |-> NoRes]
    /\ now = 0
    /\ tform \in {"index", "fields"}

\* one ride of driver u3, as CreateRide leaves it
InitBook ==
    /\ InitCommon
    /\ db = [Upsert(EmptyDb, "u3") EXCEPT
               !.rides[SeedId] = RideRow("u3", SeedSeatsTotal, SeedDepartAt),
               !.idem[<<"u3", 1, "RIDE">>] = IdemRow("RIDE", SeedId)]

ArriveBook(p) == \E r \in BookingMenu : Arrive(p, r)

NextBook ==
    \/ Tick
    \/ \E p \in Procs :
        \/ ArriveBook(p)
        \/ CreateBookingFastPath(p)
        \/ CreateBookingDecrement(p)
        \/ CreateBookingWhy(p)
        \/ CreateBookingInsert(p)
        \/ CreateBookingIdem(p)
        \/ CreateBookingRetry(p)
        \/ CancelBookingRead(p)
        \/ CancelBookingUpdate(p)
        \/ CancelBookingSeats(p)
        \/ DeadlockAbort(p)

SpecBook == InitBook /\ [][NextBook]_vars

\* ------------------------------------------- trip requests, offers, matching
OfferTerms == {<<2, 0>>}
OfferDrivers == {"u2", "u3"}

OfferMenu ==
    {CreateOfferReq(u, k, SeedId, t[1], t[2]) :
        u \in OfferDrivers, k \in Keys, t \in OfferTerms}
    \cup {AcceptOfferReq(u, o) : u \in {"u1", "u2"}, o \in IssuedIds("offers")}
    \cup {CancelOfferReq(u, o) : u \in Users, o \in IssuedIds("offers")}
    \cup {CancelBookingReq("u1", b) : b \in IssuedIds("bookings")}

\* one trip request of rider u1, as CreateTripRequest leaves it, and one PENDING
\* offer on it by driver u2, as CreateOffer leaves it
InitOffer ==
    /\ InitCommon
    /\ db = [Upsert(Upsert(EmptyDb, "u1"), "u2") EXCEPT
               !.trs[SeedId] = TripRequestRow("u1"),
               !.idem[<<"u1", 1, "TRIP_REQUEST">>] = IdemRow("TRIP_REQUEST", SeedId),
               !.offers[SeedId] = OfferRow(SeedId, "u2", "u1", 1, 5),
               !.idem[<<"u2", 1, "OFFER">>] = IdemRow("OFFER", SeedId)]

ArriveOffer(p) == \E r \in OfferMenu : Arrive(p, r)

NextOffer ==
    \E p \in Procs :
        \/ ArriveOffer(p)
        \/ CreateOfferFastPath(p)
        \/ CreateOfferTripRequest(p)
        \/ CreateOfferExisting(p)
        \/ CreateOfferInsert(p)
        \/ CreateOfferIdem(p)
        \/ CreateOfferRetry(p)
        \/ AcceptOfferRead(p)
        \/ AcceptOfferFindAccepted(p)
        \/ AcceptOfferUpdate(p)
        \/ AcceptOfferIndex(p)
        \/ AcceptOfferClose(p)
        \/ AcceptOfferCancelOthers(p)
        \/ CancelOfferRead(p)
        \/ CancelOfferUpdate(p)
        \/ CancelOfferBookings(p)
        \/ CancelOfferReopen(p)
        \/ CancelBookingRead(p)
        \/ CancelBookingUpdate(p)
        \/ CancelBookingSeats(p)
        \/ DeadlockAbort(p)

SpecOffer == InitOffer /\ [][NextOffer]_vars

\* --------------------------------------------- creating rides and trip requests
CreateMenu ==
    UNION {{CreateRideReq(u, k, SeedSeatsTotal) : k \in KeysOf(u)}
           \cup {CreateTripRequestReq(u, k) : k \in KeysOf(u)} : u \in {"u1", "u2"}}

InitCreate ==
    /\ InitCommon
    /\ db = EmptyDb

ArriveCreate(p) == \E r \in CreateMenu : Arrive(p, r)

NextCreate ==
    \E p \in Procs :
        \/ ArriveCreate(p)
        \/ CreateRideFastPath(p)
        \/ CreateRideInsert(p)
        \/ CreateRideIdem(p)
        \/ CreateRideRetry(p)
        \/ CreateTripRequestFastPath(p)
        \/ CreateTripRequestInsert(p)
        \/ CreateTripRequestIdem(p)
        \/ CreateTripRequestRetry(p)

SpecCreate == InitCreate /\ [][NextCreate]_vars

\* --------------------------------------------- one request at a time, any kind
\* (a key may come back on a call that names another target: an id never issued;
\* the driver of the ride may ask for a seat on it)
SeqMenu ==
    BookingMenu \cup OfferMenu \cup CreateMenu
    \cup {CreateBookingReq("u1", 1, Unissued, MinSeatsBooked)}
    \cup {CreateBookingReq(db["rides"][SeedId].driver, 2, SeedId, MinSeatsBooked)}
    \cup {CreateOfferReq("u2", 1, Unissued, t[1], t[2]) : t \in OfferTerms}

\* a ride of driver u3, a trip request of rider u1 and a PENDING offer on it by
\* driver u2, as CreateRide, CreateTripRequest and CreateOffer leave them
InitSeq ==
    /\ InitCommon
    /\ db = [Upsert(Upsert(Upsert(EmptyDb, "u1"), "u2"), "u3") EXCEPT
               !.rides[SeedId] = RideRow("u3", SeedSeatsTotal, SeedDepartAt),
               !.idem[<<"u3", 1, "RIDE">>] = IdemRow("RIDE", SeedId),
               !.trs[SeedId] = TripRequestRow("u1"),
               !.idem[<<"u1", 1, "TRIP_REQUEST">>] = IdemRow("TRIP_REQUEST", SeedId),
               !.offers[SeedId] = OfferRow(SeedId, "u2", "u1", 1, 5),
               !.idem[<<"u2", 1, "OFFER">>] = IdemRow("OFFER", SeedId)]

\* the next request arrives when every earlier one has been answered
ArriveSeq(p) ==
    /\ \A q \in Procs : pc[q] \in {"idle", "done"}
    /\ \E r \in SeqMenu : Arrive(p, r)

NextSeq ==
    \/ Tick
    \/ \E p \in Procs :
        \/ ArriveSeq(p)
        \/ CreateRideFastPath(p)
        \/ CreateRideInsert(p)
        \/ CreateRideIdem(p)
        \/ CreateTripRequestFastPath(p)
        \/ CreateTripRequestInsert(p)
        \/ CreateTripRequestIdem(p)
        \/ CreateBookingFastPath(p)
        \/ CreateBookingDecrement(p)
        \/ CreateBookingWhy(p)
        \/ CreateBookingInsert(p)
        \/ CreateBookingIdem(p)
        \/ CreateOfferFastPath(p)
        \/ CreateOfferTripRequest(p)
        \/ CreateOfferExisting(p)
        \/ CreateOfferInsert(p)
        \/ CreateOfferIdem(p)
        \/ AcceptOfferRead(p)
        \/ AcceptOfferFindAccepted(p)
        \/ AcceptOfferUpdate(p)
        \/ AcceptOfferIndex(p)
        \/ AcceptOfferClose(p)
        \/ AcceptOfferCancelOthers(p)
        \/ CancelOfferRead(p)
        \/ CancelOfferUpdate(p)
        \/ CancelOfferBookings(p)
        \/ CancelOfferReopen(p)
        \/ CancelBookingRead(p)
        \/ CancelBookingUpdate(p)
        \/ CancelBookingSeats(p)

SpecSeq == InitSeq /\ [][NextSeq]_vars

\* ------------------------------------------------------------------ claims
RideRows == {id \in Ids : db["rides"][id] # NoRow}

\* C1: in every reachable state every ride has 0 <= seatsAvailable <= seatsTotal,
\* under any interleaving of CreateBooking and CancelBooking calls.
C1_SeatsWithinBounds ==
    \A id \in RideRows :
        /\ 0 <= db["rides"][id].seatsAvailable
        /\ db["rides"][id].seatsAvailable <= db["rides"][id].seatsTotal

OfferRows == {id \in Ids : db["offers"][id] # NoRow}
BookingRows == {id \in Ids : db["bookings"][id] # NoRow}
Done(p) == pc[p] = "done"
Succeeded(p) == Done(p) /\ res[p].code \in {200, 201}

\* C2: in every reachable state an offer is ACCEPTED if and only if a CONFIRMED
\* booking references its trip request and its driver.
C2_AcceptedIffConfirmed ==
    /\ \A o \in OfferRows :
          db["offers"][o].status = "ACCEPTED" =>
             \E b \in BookingRows :
                /\ db["bookings"][b].status = "CONFIRMED"
                /\ db["bookings"][b].tr = db["offers"][o].tr
                /\ db["bookings"][b].driver = db["offers"][o].driver
    /\ \A b \in BookingRows :
          (db["bookings"][b].status = "CONFIRMED" /\ db["bookings"][b].tr # Null) =>
             \E o \in OfferRows :
                /\ db["offers"][o].status = "ACCEPTED"
                /\ db["offers"][o].tr = db["bookings"][b].tr
                /\ db["offers"][o].driver = db["bookings"][b].driver

AcceptedOf(tr) ==
    {o \in OfferRows : db["offers"][o].status = "ACCEPTED" /\ db["offers"][o].tr = tr}

\* C3: in every reachable state each trip request has at most one ACCEPTED offer,
\* also when two AcceptOffer calls on two PENDING offers of it run concurrently.
C3_AtMostOneAccepted ==
    \A tr \in Ids : Cardinality(AcceptedOf(tr)) <= 1

\* two AcceptOffer calls on different offers of the trip request have both been
\* answered, the second one stopped by the unique index after the first committed
C3_Witness ==
    \E p, q \in Procs :
        /\ p # q
        /\ req[p].op = "AcceptOffer" /\ req[q].op = "AcceptOffer"
        /\ req[p].target # req[q].target
        /\ Done(p) /\ res[p].code = 200
        /\ Done(q) /\ res[q] = Err(409, "Conflict") /\ loc[q].caught = "P2002"
        /\ AcceptedOf(SeedId) = {req[p].target}

\* C4: a successful AcceptOffer commits in one step: the offer ACCEPTED, one new
\* CONFIRMED booking without ride and with the offer's trip request, driver, rider,
\* seats and price, the trip request CLOSED, every other PENDING offer of the trip
\* request CANCELLED; every other step of an AcceptOffer call, and a failed call,
\* leaves the committed state as it was.
C4_AcceptEffects(p) ==
    LET o == req[p].target
        old == db["offers"][o]
    IN  /\ db'["offers"][o] = [old EXCEPT !.status = "ACCEPTED"]
        /\ db["bookings"][p] = NoRow
        /\ db'["bookings"] = [db["bookings"] EXCEPT ![p] =
                BookingRow(Null, old.tr, old.driver, old.rider, old.seats, old.price)]
        /\ db'["trs"] = [db["trs"] EXCEPT ![old.tr].status = "CLOSED"]
        /\ \A o2 \in Ids \ {o} :
              db'["offers"][o2] =
                 IF db["offers"][o2].status = "PENDING" /\ db["offers"][o2].tr = old.tr
                 THEN [db["offers"][o2] EXCEPT !.status = "CANCELLED"]
                 ELSE db["offers"][o2]
        /\ db'["rides"] = db["rides"]
        /\ db'["idem"] = db["idem"]

C4_AcceptAtomic ==
    [][\A p \in Procs :
          (req[p].op = "AcceptOffer" /\ pc'[p] # pc[p]) =>
             IF pc'[p] = "done" /\ res'[p].code = 200
             THEN C4_AcceptEffects(p)
             ELSE db' = db]_vars

\* an AcceptOffer call has succeeded and cancelled a competing PENDING offer
C4_Witness ==
    \E p \in Procs : \E o2 \in OfferRows :
        /\ req[p].op = "AcceptOffer" /\ Done(p) /\ res[p].code = 200
        /\ o2 # req[p].target
        /\ db["offers"][req[p].target].status = "ACCEPTED"
        /\ db["offers"][o2].status = "CANCELLED"
        /\ \A q \in Procs : req[q].op = "CancelOffer" => req[q].target # o2
        /\ db["bookings"][p].status = "CONFIRMED"
        /\ db["trs"][SeedId].status = "CLOSED"

CreateOps == {"CreateRide", "CreateTripRequest", "CreateOffer", "CreateBooking"}

KindOf(op) ==
    CASE op = "CreateRide" -> "RIDE"
      [] op = "CreateTripRequest" -> "TRIP_REQUEST"
      [] op = "CreateOffer" -> "OFFER"
      [] op = "CreateBooking" -> "BOOKING"

TableOf(op) ==
    CASE op = "CreateRide" -> "rides"
      [] op = "CreateTripRequest" -> "trs"
      [] op = "CreateOffer" -> "offers"
      [] op = "CreateBooking" -> "bookings"

SameLedgerKey(p, q) ==
    /\ req[p].op \in CreateOps
    /\ req[q].op = req[p].op
    /\ req[q].user = req[p].user
    /\ req[q].key = req[p].key

\* C5: a create call repeated, after the first call completed, with the same actor
\* and key returns the first call's entity id and adds no entity row and no ledger
\* row (requests are answered one at a time, in the order of their numbers).
C5_ReplaySameEntity ==
    \A p, q \in Procs :
        (p < q /\ SameLedgerKey(p, q) /\ Succeeded(p) /\ Done(q)) =>
            /\ res[q] = Replay(res[p].id)
            /\ db[TableOf(req[q].op)][q] = NoRow
            /\ db["idem"][<<req[p].user, req[p].key, KindOf(req[p].op)>>]
                  = IdemRow(KindOf(req[p].op), res[p].id)

\* a create call has been repeated with its key and other parameters, and answered
\* with the first call's entity
C5_Witness ==
    \E p, q \in Procs :
        /\ p < q /\ SameLedgerKey(p, q)
        /\ req[p].op \in {"CreateBooking", "CreateOffer", "CreateRide"}
        /\ req[q] # req[p]
        /\ res[p] = Created(p)
        /\ Done(q) /\ res[q] = Replay(p)

\* C6: concurrent first uses of one (actor, key) by CreateRide or CreateTripRequest
\* commit exactly one entity and one ledger row; the loser leaves no entity and is
\* answered with the winner's entity as a replay.
C6_CreateRaceOneWinner ==
    \A p \in Procs :
        (req[p].op \in {"CreateRide", "CreateTripRequest"} /\ Done(p)) =>
            LET t == TableOf(req[p].op)
                S == {q \in Procs : SameLedgerKey(p, q)}
                w == res[p].id
            IN  /\ res[p].code \in {200, 201}
                /\ w \in S
                /\ res[p].code = 201 <=> w = p
                /\ db[t][w] # NoRow
                /\ db["idem"][<<req[p].user, req[p].key, KindOf(req[p].op)>>]
                      = IdemRow(KindOf(req[p].op), w)
                /\ \A q \in S \ {w} : db[t][q] = NoRow

\* two CreateRide calls raced: the loser caught the P2002, and was answered with
\* the winner's ride
C6_Witness ==
    \E p, q \in Procs :
        /\ p # q /\ SameLedgerKey(p, q) /\ req[p].op = "CreateRide"
        /\ res[p] = Created(p)
        /\ Done(q) /\ loc[q].caught = "P2002" /\ res[q] = Replay(p)

Arrived == {p \in Procs : pc[p] # "idle"}

RECURSIVE SeatsCreated(_)
\* the seats of the CreateBooking calls among S that were answered 201
SeatsCreated(S) ==
    IF S = {} THEN 0
    ELSE LET p == CHOOSE x \in S : TRUE
         IN  (IF req[p].op = "CreateBooking" /\ Done(p) /\ res[p].code = 201
              THEN req[p].seats ELSE 0) + SeatsCreated(S \ {p})

\* C7: concurrent first uses of one key by one rider for the same ride and seats:
\* one booking and one ledger row, one decrement, and every call is answered with
\* that booking, never with an error (stated for runs in which every request is
\* that same CreateBooking and the ride has not departed).
C7_BookingRaceReplays ==
    (/\ \A p \in Arrived : req[p].op = "CreateBooking"
     /\ \A p, q \in Arrived : req[p] = req[q]
     /\ now < SeedDepartAt) =>
        /\ \A p \in Arrived : Done(p) => res[p].code \in {200, 201}
        /\ \A p, q \in Arrived : (Done(p) /\ Done(q)) => res[p].id = res[q].id
        /\ Cardinality(BookingRows) <= 1
        /\ \A p \in Arrived : Done(p) =>
              db["rides"][SeedId].seatsAvailable = SeedSeatsTotal - req[p].seats

\* C8: concurrent first uses of one key by one driver on the same ACTIVE trip
\* request: one offer and one ledger row, and every call is answered with that
\* offer, never with an error (stated for runs in which every request is that same
\* CreateOffer, by a driver other than the one who made the seeded offer).
C8_OfferRaceReplays ==
    (/\ \A p \in Arrived : req[p].op = "CreateOffer"
     /\ \A p \in Arrived : req[p].user # db["offers"][SeedId].driver
     /\ \A p, q \in Arrived : req[p] = req[q]) =>
        /\ \A p \in Arrived : Done(p) => res[p].code \in {200, 201}
        /\ \A p, q \in Arrived : (Done(p) /\ Done(q)) => res[p].id = res[q].id
        /\ Cardinality(OfferRows \ {SeedId}) <= 1

\* C9: while only CreateBooking calls run on the ride, in every state the seats of
\* the calls answered 201 sum to at most the seats the ride had, seatsAvailable is
\* what the ride had minus that sum, and it is never negative.
C9_NoOverbooking ==
    (\A p \in Arrived : req[p].op = "CreateBooking") =>
        /\ SeatsCreated(Procs) <= SeedSeatsTotal
        /\ db["rides"][SeedId].seatsAvailable = SeedSeatsTotal - SeatsCreated(Procs)
        /\ db["rides"][SeedId].seatsAvailable >= 0

\* two riders with different keys have booked all the seats concurrently (the
\* second decrement waited for the first to commit) and a third call was refused
C9_Witness ==
    \E p, q, r \in Procs :
        /\ p # q /\ req[p].user # req[q].user
        /\ res[p] = Created(p) /\ res[q] = Created(q)
        /\ req[r].op = "CreateBooking" /\ res[r] = Err(409, "Not enough seats available.")
        /\ db["rides"][SeedId].seatsAvailable = 0

\* C10: two concurrent CreateBooking calls by different riders on the ACTIVE,
\* not departed ride, each for no more than seatsAvailable but together for more:
\* exactly one is answered 201 and the other 409 "Not enough seats available.".
C10_OneWinsOtherConflict ==
    \A p, q \in Procs :
        (/\ p # q
         /\ Arrived = {p, q}
         /\ req[p].op = "CreateBooking" /\ req[q].op = "CreateBooking"
         /\ req[p].user # req[q].user
         /\ req[p].seats <= SeedSeatsTotal /\ req[q].seats <= SeedSeatsTotal
         /\ req[p].seats + req[q].seats > SeedSeatsTotal
         /\ now < SeedDepartAt
         /\ Done(p) /\ Done(q)) =>
            \/ res[p] = Created(p) /\ res[q] = Err(409, "Not enough seats available.")
            \/ res[q] = Created(q) /\ res[p] = Err(409, "Not enough seats available.")

\* the two calls overlapped: the loser was in its transaction, waiting for the
\* ride's row, when the winner committed; both have been answered
C10_Witness ==
    \E p, q \in Procs :
        /\ p < q /\ Arrived = {p, q}
        /\ req[p].user # req[q].user
        /\ req[p].seats + req[q].seats > SeedSeatsTotal
        /\ res[q] = Created(q)
        /\ res[p] = Err(409, "Not enough seats available.")
        /\ now < SeedDepartAt

PendingOf(tr) ==
    {o \in OfferRows : db["offers"][o].status = "PENDING" /\ db["offers"][o].tr = tr}

\* C11: in every reachable state a trip request that has an ACCEPTED offer has no
\* PENDING offer, under any interleaving of CreateOffer, AcceptOffer and
\* CancelOffer calls.
C11_AcceptedExcludesPending ==
    \A tr \in Ids : AcceptedOf(tr) # {} => PendingOf(tr) = {}

\* the trip request of p's target offer has an ACCEPTED offer other than the target
OtherAccepted(p) ==
    /\ db["offers"][req[p].target] # NoRow
    /\ \E o \in OfferRows \ {req[p].target} :
          InOfferAccepted(db["offers"][o], db["offers"][req[p].target].tr)

\* C12: an AcceptOffer call by the rider that runs its guards when another offer
\* of the target's trip request is ACCEPTED gets no further than the guards: it is
\* answered 409, and it leaves every offer, booking and trip request as it was.
C12_LaterAcceptConflicts ==
    [][\A p \in Procs :
          (req[p].op = "AcceptOffer" /\ pc[p] \in {"ao_read", "ao_first"}
             /\ pc'[p] # pc[p] /\ OtherAccepted(p)
             /\ db["offers"][req[p].target].rider = req[p].user) =>
                /\ db' = db
                /\ \/ pc[p] = "ao_read" /\ pc'[p] = "ao_first"
                   \/ pc'[p] = "done" /\ res'[p].code = 409]_vars

\* the rider accepted one offer, then asked to accept a competing one and was
\* refused
C12_Witness ==
    \E p, q \in Procs :
        /\ req[p].op = "AcceptOffer" /\ res[p].code = 200
        /\ req[q].op = "AcceptOffer" /\ req[q].target # req[p].target
        /\ Done(q) /\ res[q].code = 409 /\ loc[q].caught = ""
        /\ OtherAccepted(q)
        /\ db["offers"][req[p].target].status = "ACCEPTED"

\* the committed effects of cancelling the ACCEPTED offer req[p].target
C13_CancelEffects(p) ==
    LET o == req[p].target
        old == db["offers"][o]
    IN  /\ db'["offers"] = [db["offers"] EXCEPT ![o].status = "CANCELLED"]
        /\ \A b \in Ids :
              db'["bookings"][b] =
                 IF /\ db["bookings"][b].status = "CONFIRMED"
                    /\ db["bookings"][b].tr = old.tr
                    /\ db["bookings"][b].driver = old.driver
                 THEN [db["bookings"][b] EXCEPT !.status = "CANCELLED"]
                 ELSE db["bookings"][b]
        /\ db'["trs"] = [db["trs"] EXCEPT ![old.tr].status = "ACTIVE"]
        /\ db'["rides"] = db["rides"]
        /\ db'["idem"] = db["idem"]

\* C13: a CancelOffer call by the rider that is applied to an ACCEPTED offer sets,
\* in one step, that offer to CANCELLED, the CONFIRMED booking(s) of that offer
\* and no other booking to CANCELLED, and the trip request to ACTIVE.
C13_RiderCancelCascades ==
    [][\A p \in Procs :
          (/\ req[p].op = "CancelOffer"
           /\ pc'[p] # pc[p]
           /\ db' # db
           /\ db["offers"][req[p].target].status = "ACCEPTED"
           /\ db["offers"][req[p].target].rider = req[p].user) =>
                C13_CancelEffects(p)]_vars

\* C14: a CancelOffer call, by the driver or by the rider, that is applied to a
\* PENDING offer changes that offer's status to CANCELLED and nothing else: every
\* trip request and every booking is left as it was.
C14_PendingCancelFrame ==
    [][\A p \in Procs :
          (/\ req[p].op = "CancelOffer"
           /\ pc'[p] # pc[p]
           /\ db' # db
           /\ db["offers"][req[p].target].status = "PENDING") =>
                db' = [db EXCEPT !.offers[req[p].target].status = "CANCELLED"]]_vars

\* the driver has cancelled their PENDING offer and the rider another PENDING
\* offer of the trip request, which is still ACTIVE
C14_Witness ==
    \E p, q \in Procs :
        /\ req[p].op = "CancelOffer" /\ req[q].op = "CancelOffer"
        /\ req[p].target # req[q].target
        /\ loc[p].status = "PENDING" /\ loc[q].status = "PENDING"
        /\ res[p] = Ok(req[p].target, "CANCELLED")
        /\ res[q] = Ok(req[q].target, "CANCELLED")
        /\ db["offers"][req[p].target].status = "CANCELLED"
        /\ db["offers"][req[q].target].status = "CANCELLED"
        /\ req[p].user = db["offers"][req[p].target].driver
        /\ req[q].user = db["offers"][req[q].target].rider
        /\ db["trs"][SeedId].status = "ACTIVE"
        /\ BookingRows = {}

\* C15: a CancelOffer call by the offer's driver never cancels an accepted offer:
\* a step of the call taken while the offer is ACCEPTED changes no offer, booking
\* or trip request, and if it ends the call, the answer is 409.
C15_DriverNeverCancelsAccepted ==
    [][\A p \in Procs :
          (/\ req[p].op = "CancelOffer"
           /\ pc'[p] # pc[p]
           /\ db["offers"][req[p].target].status = "ACCEPTED"
           /\ db["offers"][req[p].target].driver = req[p].user) =>
                /\ db' = db
                /\ pc'[p] = "done" => res'[p].code = 409]_vars

\* an earlier CancelOffer call on q's target has been answered 200
CancelledBefore(q) ==
    \E p \in Procs \ {q} :
        /\ req[p].op = "CancelOffer" /\ req[p].target = req[q].target
        /\ Done(p) /\ res[p] = Ok(req[p].target, "CANCELLED")

\* C16: CancelOffer called again, by the offer's driver or rider, after a call on
\* the same offer has succeeded (requests are answered one at a time): the second
\* call is answered like the first, with the offer CANCELLED, in its first step,
\* without entering its transaction and without changing any row.
C16_CancelOfferIdempotent ==
    [][\A q \in Procs :
          (/\ req[q].op = "CancelOffer"
           /\ pc'[q] # pc[q]
           /\ CancelledBefore(q)
           /\ req[q].user \in {db["offers"][req[q].target].driver,
                               db["offers"][req[q].target].rider}) =>
                /\ pc[q] = "xo_read" /\ pc'[q] = "done"
                /\ res'[q] = Ok(req[q].target, "CANCELLED")
                /\ db' = db]_vars

\* the rider cancelled an ACCEPTED offer, with the cascade, and then cancelled it
\* again
C16_Witness ==
    \E p, q \in Procs :
        /\ p < q
        /\ req[p].op = "CancelOffer" /\ req[q] = req[p]
        /\ loc[p].status = "ACCEPTED"
        /\ res[p] = Ok(req[p].target, "CANCELLED")
        /\ res[q] = res[p]
        /\ db["offers"][req[p].target].status = "CANCELLED"
        /\ db["trs"][SeedId].status = "ACTIVE"

\* C17: the step that commits a CancelBooking call on a CONFIRMED booking of a
\* ride sets the booking to CANCELLED and adds exactly its seatsBooked to the
\* ride's seatsAvailable, and changes nothing else; no other step of the call
\* changes a committed row.
C17_CancelReleasesSeats ==
    [][\A p \in Procs :
          (/\ req[p].op = "CancelBooking"
           /\ pc'[p] # pc[p]
           /\ db["bookings"][req[p].target].status = "CONFIRMED"
           /\ db["bookings"][req[p].target].rideId # Null) =>
              LET b == db["bookings"][req[p].target]
              IN  IF pc'[p] = "done" /\ res'[p].code = 200
                  THEN db' = [db EXCEPT
                                !.bookings[req[p].target].status = "CANCELLED",
                                !.rides[b.rideId].seatsAvailable = @ + b.seats]
                  ELSE db' = db]_vars

\* a rider booked seats on the ride and cancelled the booking, while another
\* rider's booking stands
C17_Witness ==
    \E p, q, r \in Procs :
        /\ req[p].op = "CreateBooking" /\ res[p] = Created(p)
        /\ req[r].op = "CreateBooking" /\ res[r] = Created(r) /\ r # p
        /\ req[q].op = "CancelBooking" /\ req[q].target = p
        /\ res[q] = Ok(p, "Booking cancelled successfully.")
        /\ db["bookings"][p].status = "CANCELLED"
        /\ db["bookings"][r].status = "CONFIRMED"
        /\ db["rides"][SeedId].seatsAvailable = SeedSeatsTotal - req[r].seats

\* C18: a CancelBooking call by the rider applied to a booking that is already
\* CANCELLED is answered 200 and changes neither the booking nor the ride's
\* seatsAvailable: no step of such a call taken while the booking is CANCELLED
\* changes a committed row, so that a booking's seats are released at most once.
C18_CancelledStaysReleasedOnce ==
    [][\A p \in Procs :
          (/\ req[p].op = "CancelBooking"
           /\ pc'[p] # pc[p]
           /\ db["bookings"][req[p].target].status = "CANCELLED"
           /\ db["bookings"][req[p].target].rider = req[p].user) =>
                /\ db' = db
                /\ pc'[p] = "done" => res'[p].code = 200]_vars

\* the CONFIRMED bookings of a rider on a ride
ConfirmedOn(rideId, rider) ==
    {b \in BookingRows : InBookingActive(db["bookings"][b], rideId, rider)}

\* C19: in every reachable state each (ride, rider) pair has at most one CONFIRMED
\* booking, under any interleaving of CreateBooking and CancelBooking calls.
C19_OneConfirmedPerRider ==
    \A rideId \in Ids : \A rider \in Users :
        Cardinality(ConfirmedOn(rideId, rider)) <= 1

\* a rider who holds a CONFIRMED booking asked for a second one with another key
\* and was stopped by booking_active_unique
C19_Witness ==
    \E p, q \in Procs :
        /\ p # q
        /\ req[p].op = "CreateBooking" /\ req[q].op = "CreateBooking"
        /\ req[p].user = req[q].user /\ req[p].key # req[q].key
        /\ res[p] = Created(p)
        /\ Done(q) /\ loc[q].caught = "P2002"
        /\ ConfirmedOn(SeedId, req[p].user) = {p}

\* a CancelBooking call is between its arrival and its answer
CancelInFlight ==
    \E q \in Procs : req[q].op = "CancelBooking" /\ pc[q] \notin {"idle", "done"}

C21_ZeroRowsClassified ==
    [][\A p \in Procs :
          (req[p].op = "CreateBooking" /\ pc[p] = "bk_why" /\ pc'[p] # pc[p]) =>
             LET r == db["rides"][req[p].target]
             IN  /\ pc'[p] = "done"
                 /\ res'[p] \in {Err(404, "Ride not found."),
                                 Err(409, "Ride is not active."),
                                 Err(409, "Ride has departed."),
                                 Err(409, "Not enough seats available.")}
                 /\ res'[p] = Err(404, "Ride not found.") <=> r = NoRow
                 /\ res'[p] = Err(409, "Ride is not active.") <=>
                       (r # NoRow /\ r.status # "ACTIVE")
                 /\ res'[p] = Err(409, "Ride has departed.") <=>
                       (r # NoRow /\ r.status = "ACTIVE" /\ r.departAt <= loc[p].now)]_vars

\* the PENDING or ACCEPTED offers of a driver on a trip request
ActiveOf(tr, driver) ==
    {o \in OfferRows : InOfferActive(db["offers"][o], tr, driver)}

\* C22: in every reachable state each (trip request, driver) pair has at most one
\* offer that is PENDING or ACCEPTED, under any interleaving of CreateOffer,
\* AcceptOffer and CancelOffer calls.
C22_OneActiveOfferPerDriver ==
    \A tr \in Ids : \A driver \in Users : Cardinality(ActiveOf(tr, driver)) <= 1

\* two CreateOffer calls of one driver with different keys passed the optimistic
\* guard together; the second insert was refused by the index
C22_Witness ==
    \E p, q \in Procs :
        /\ req[p].op = "CreateOffer" /\ req[q].op = "CreateOffer"
        /\ req[p].user = req[q].user /\ req[p].key # req[q].key
        /\ res[p] = Created(p)
        /\ Done(q) /\ res[q].code = 409 /\ loc[q].caught = "P2002"
        /\ ActiveOf(SeedId, req[p].user) = {p}

\* the committed state gives CreateOffer call p a reason to fail
CreateOfferRefused(p) ==
    LET t == db["trs"][req[p].target]
    IN  \/ t = NoRow
        \/ t.status # "ACTIVE"
        \/ t.rider = req[p].user
        \/ ActiveOf(req[p].target, req[p].user) # {}

\* C23: a CreateOffer call with a fresh key creates neither an offer nor a ledger
\* row, and is answered 404 or 409, when the trip request is missing, is not
\* ACTIVE, is the driver's own, or already has a PENDING or ACCEPTED offer of the
\* driver: no step of the call taken in such a state changes the offers or the
\* ledger, so that no PENDING offer is created on a trip request that a concurrent
\* AcceptOffer has closed.
C23_RefusedOfferCreatesNothing ==
    [][\A p \in Procs :
          (/\ req[p].op = "CreateOffer"
           /\ pc'[p] # pc[p]
           /\ db["idem"][<<req[p].user, req[p].key, "OFFER">>] = NoRow
           /\ CreateOfferRefused(p)) =>
                /\ db'["offers"] = db["offers"]
                /\ db'["idem"] = db["idem"]
                /\ pc'[p] = "done" => res'[p].code \in {404, 409}]_vars

\* the caller of p has no right over the entity the call names
Unauthorized(p) ==
    LET id == req[p].target
    IN  \/ /\ req[p].op = "AcceptOffer"
           /\ db["offers"][id] # NoRow
           /\ db["trs"][db["offers"][id].tr].rider # req[p].user
        \/ /\ req[p].op = "CancelOffer"
           /\ db["offers"][id] # NoRow
           /\ req[p].user \notin {db["offers"][id].driver, db["offers"][id].rider}
        \/ /\ req[p].op = "CancelBooking"
           /\ db["bookings"][id] # NoRow
           /\ db["bookings"][id].rider # req[p].user

\* C24: AcceptOffer by anyone but the rider of the offer's trip request, CancelOffer
\* by anyone who is neither the offer's driver nor its rider, and CancelBooking by
\* anyone but the booking's rider are answered 403 at once and change no row.
C24_UnauthorizedChangesNothing ==
    [][\A p \in Procs :
          (pc'[p] # pc[p] /\ Unauthorized(p)) =>
              /\ pc'[p] = "done"
              /\ res'[p].code = 403
              /\ db' = db]_vars

\* a driver tried to accept their own offer and a stranger tried to cancel a
\* rider's booking; the offer is still PENDING and the booking still CONFIRMED
C24_Witness ==
    \E p, q, r \in Procs :
        /\ req[p].op = "AcceptOffer" /\ Done(p) /\ res[p].code = 403
        /\ db["offers"][req[p].target].status = "PENDING"
        /\ req[r].op = "CreateBooking" /\ res[r] = Created(r)
        /\ req[q].op = "CancelBooking" /\ req[q].target = r
        /\ Done(q) /\ res[q].code = 403
        /\ db["bookings"][r].status = "CONFIRMED"
        /\ db["rides"][SeedId].seatsAvailable = SeedSeatsTotal - req[r].seats

\* the entity a ledger row points to
EntityId(m) ==
    CASE m.kind = "RIDE" -> m.rideId
      [] m.kind = "TRIP_REQUEST" -> m.tripRequestId
      [] m.kind = "OFFER" -> m.offerId
      [] m.kind = "BOOKING" -> m.bookingId

LedgerRowOf(p) == db["idem"][<<req[p].user, req[p].key, KindOf(req[p].op)>>]

\* a create call is about to run and its (actor, key, kind) has a committed ledger row
LedgerHit(p) ==
    /\ req[p].op \in CreateOps
    /\ pc[p] = FirstLabel(req[p].op)
    /\ LedgerRowOf(p) # NoRow

\* C25: a create call whose (actor, key, kind) already has a committed ledger row is
\* answered in its first step with 200 and the stored entity, and that step writes
\* nothing: no row of any table changes, whatever the state of the ride, the trip
\* request or the stored entity and whatever target and parameters the call carries.
C25_ReplayWritesNothing ==
    [][\A p \in Procs : (pc'[p] # pc[p] /\ LedgerHit(p)) =>
          /\ pc'[p] = "done"
          /\ res'[p] = Replay(EntityId(LedgerRowOf(p)))
          /\ db' = db]_vars

\* a booking key came back, on a call naming another ride and another seat count,
\* after the booking was cancelled and the ride departed, and was answered with the
\* stored booking
C25_Witness ==
    \E p, c, q \in Procs :
        /\ p < c /\ c < q /\ SameLedgerKey(p, q)
        /\ req[c].op = "CancelBooking" /\ req[c].target = p /\ res[c].code = 200
        /\ req[p].op = "CreateBooking" /\ res[p] = Created(p)
        /\ req[q].target = Unissued /\ req[q].seats # req[p].seats
        /\ Done(q) /\ res[q] = Replay(p)
        /\ db["bookings"][p].status = "CANCELLED"
        /\ now >= SeedDepartAt

\* a CreateBooking call in progress whose caller is the driver of the ride it names
SelfBooking(p) ==
    /\ req[p].op = "CreateBooking"
    /\ pc[p] \notin {"idle", "done"}
    /\ db["rides"][req[p].target] # NoRow
    /\ db["rides"][req[p].target].driver = req[p].user

\* C26: no step of a CreateBooking call made by the driver of the target ride
\* changes any row (no seat decrement, no booking, ledger or user row), and the call
\* is answered 409 with code SELF_BOOKING_NOT_ALLOWED.
C26_SelfBookingRefused ==
    [][\A p \in Procs : (pc'[p] # pc[p] /\ SelfBooking(p)) =>
          /\ db' = db
          /\ pc'[p] = "done" =>
                /\ res'[p].code = 409
                /\ res'[p].msg = "SELF_BOOKING_NOT_ALLOWED"]_vars

\* the table a ledger row of a kind points into
TableOfKind(kind) ==
    CASE kind = "RIDE" -> "rides"
      [] kind = "TRIP_REQUEST" -> "trs"
      [] kind = "OFFER" -> "offers"
      [] kind = "BOOKING" -> "bookings"

LedgerRows == {t \in Triples : db["idem"][t] # NoRow}

\* the references of a ledger row that are set
RefsOf(m) ==
    {k \in Kinds : (CASE k = "RIDE" -> m.rideId
                      [] k = "TRIP_REQUEST" -> m.tripRequestId
                      [] k = "OFFER" -> m.offerId
                      [] k = "BOOKING" -> m.bookingId) # Null}

LedgerWellFormed ==
    \A t \in LedgerRows :
        LET m == db["idem"][t]
        IN  /\ m.kind = t[3]
            /\ RefsOf(m) = {m.kind}
            /\ db[TableOfKind(m.kind)][EntityId(m)] # NoRow

\* C27: every committed ledger row has exactly one reference set, the one of its
\* own kind, and the entity it names exists; and there is one row per (actor, key,
\* kind): an insert never lands on a triple that already has a row, so a row,
\* once committed, is never replaced by another.
C27_LedgerOneEntityOfItsKind ==
    /\ []LedgerWellFormed
    /\ [][\A t \in Triples :
            db["idem"][t] # NoRow => db'["idem"][t] \in {db["idem"][t], NoRow}]_vars

\* rows of two kinds are in the ledger, and two calls raced on one key: one created
\* its entity and its row, the other one was answered with that entity
C27_Witness ==
    \E p, q \in Procs :
        /\ p # q /\ SameLedgerKey(p, q)
        /\ res[p] = Created(p) /\ Done(q) /\ res[q] = Replay(p)
        /\ loc[q].caught = "P2002"
        /\ db["idem"][<<req[p].user, req[p].key, KindOf(req[p].op)>>]
              = IdemRow(KindOf(req[p].op), p)
        /\ \E t \in LedgerRows : t[3] # KindOf(req[p].op)

\* ---------------------------------------------------------------- browsing
\* GET /api/rides and GET /api/trip-requests: one client pages through a fixed set
\* of rows, following nextCursor; the clock may advance between its requests
DefaultLimit == 20

BrowseIds == {SeedId} \cup Procs
BrowseTimes == 0..MaxTime
BrowseVariants == {"open", "full", "closed"}
BrowseClients == {1}

\* a ride as the list reads it: its window opens at earliest and closes one later
BrowseRide(e, v) ==
    [earliestDepartAt |-> e] @@
    [RideRow("u3", SeedSeatsTotal, e + 1) EXCEPT
        !.status = IF v = "closed" THEN "CANCELLED" ELSE "ACTIVE",
        !.seatsAvailable = IF v = "full" THEN 0 ELSE 1]

BrowseTripRequest(e, v) ==
    [earliestDesiredAt |-> e, latestDesiredAt |-> e + 1,
     seatsNeeded |-> IF v = "full" THEN 2 ELSE 1] @@
    [TripRequestRow("u1") EXCEPT
        !.status = IF v = "closed" THEN "CLOSED" ELSE "ACTIVE"]

NoItem == <<>>
BrowseChoices == {NoItem} \cup (BrowseTimes \X BrowseVariants)

BrowseDb(f) ==
    [EmptyDb EXCEPT
        !.rides = [id \in Ids |->
                     IF id \in BrowseIds /\ f[id] # NoItem
                     THEN BrowseRide(f[id][1], f[id][2]) ELSE NoRow],
        !.trs = [id \in Ids |->
                     IF id \in BrowseIds /\ f[id] # NoItem
                     THEN BrowseTripRequest(f[id][1], f[id][2]) ELSE NoRow]]

\* Date.toISOString and new Date(string), on instants counted in milliseconds:
\* the string carries the instant digit by digit
RECURSIVE ToISOString(_)
ToISOString(t) ==
    IF t < 10 THEN <<t>> ELSE Append(ToISOString(t \div 10), t % 10)

RECURSIVE ParseDate(_)
ParseDate(str) ==
    IF Len(str) = 1 THEN str[1]
    ELSE 10 * ParseDate(SubSeq(str, 1, Len(str) - 1)) + str[Len(str)]

\* no cursor parameter, and what decodeCursor returns for it
NoCursor == [id |-> Null, timestamp |-> <<>>]
NoDecoded == [id |-> Null, timestamp |-> Null]

encodeCursor(id, timestamp) == [id |-> id, timestamp |-> ToISOString(timestamp)]

\* (ids are UUIDs and the string was produced by encodeCursor: every validation passes)
decodeCursor(value) ==
    IF value = NoCursor THEN NoDecoded
    ELSE [id |-> value.id, timestamp |-> ParseDate(value.timestamp)]

parseLimit(value) == IF value = Null THEN DefaultLimit ELSE value

ListRidesReq(limit, includeFull) ==
    [op |-> "ListRides", limit |-> limit, cursor |-> NoCursor,
     includeFull |-> includeFull, seatsMax |-> Null]

ListTripRequestsReq(limit, seatsMax) ==
    [op |-> "ListTripRequests", limit |-> limit, cursor |-> NoCursor,
     includeFull |-> FALSE, seatsMax |-> seatsMax]

BrowseTable(op) == IF op = "ListRides" THEN "rides" ELSE "trs"

EarliestOf(t, id) ==
    IF t = "rides" THEN db[t][id].earliestDepartAt ELSE db[t][id].earliestDesiredAt

\* the filters of the two handlers, without the cursor clause; n is the handler's
\* new Date(), which also stands in for an absent earliestAfter in the ride list
RidesWhere(r, q, n) ==
    /\ r.status = "ACTIVE"
    /\ r.departAt > n
    /\ r.earliestDepartAt >= n
    /\ q.includeFull \/ r.seatsAvailable >= 1

TripRequestsWhere(r, q, n) ==
    /\ r.status = "ACTIVE"
    /\ r.latestDesiredAt > n
    /\ q.seatsMax = Null \/ r.seatsNeeded <= q.seatsMax

Matching(q, n) ==
    LET t == BrowseTable(q.op)
    IN  {id \in Ids :
            /\ db[t][id] # NoRow
            /\ IF t = "rides" THEN RidesWhere(db[t][id], q, n)
                              ELSE TripRequestsWhere(db[t][id], q, n)}

CursorAfter_NoTieBreak(c, e, id) == e > c.timestamp

\* the clause added for a cursor: strictly after (timestamp, id)
CursorAfter(c, e, id) ==
    \/ e > c.timestamp
    \/ e = c.timestamp /\ id > c.id

\* orderBy earliest asc, id asc
Before(t, a, b) ==
    \/ EarliestOf(t, a) < EarliestOf(t, b)
    \/ EarliestOf(t, a) = EarliestOf(t, b) /\ a < b

RECURSIVE OrderBy(_, _)
OrderBy(t, S) ==
    IF S = {} THEN <<>>
    ELSE LET first == CHOOSE a \in S : \A b \in S \ {a} : Before(t, a, b)
         IN  <<first>> \o OrderBy(t, S \ {first})

Take(rows, n) == SubSeq(rows, 1, IF Len(rows) < n THEN Len(rows) ELSE n)

\* findMany with take limit + 1, then the response
BrowsePage(q, n) ==
    LET t == BrowseTable(q.op)
        limit == parseLimit(q.limit)
        cursor == decodeCursor(q.cursor)
        found == {id \in Matching(q, n) :
                    cursor = NoDecoded \/ CursorAfter(cursor, EarliestOf(t, id), id)}
        rows == Take(OrderBy(t, found), limit + 1)
        hasNextPage == Len(rows) > limit
        items == IF hasNextPage THEN SubSeq(rows, 1, limit) ELSE rows
    IN  [code |-> 200, items |-> items,
         nextCursor |-> IF hasNextPage /\ items # <<>>
                        THEN encodeCursor(items[Len(items)],
                                          EarliestOf(t, items[Len(items)]))
                        ELSE NoCursor]

\* the client's record of its traversal: the instant of its first and of its
\* latest request, and the items received so far
Browse(p, q) ==
    /\ LET page == BrowsePage(q, now)
       IN  /\ res' = [res EXCEPT ![p] = page]
           /\ loc' = [loc EXCEPT ![p] =
                        [now |-> now,
                         first |-> IF q.cursor = NoCursor THEN now ELSE @.first,
                         seen |-> IF q.cursor = NoCursor THEN page.items
                                  ELSE @.seen \o page.items]]
    /\ Goto(p, "ls_got")
    /\ UNCHANGED <<db, ws, req, now, tform>>

ListRides(p) ==
    /\ pc[p] = "ls_call"
    /\ req[p].op = "ListRides"
    /\ Browse(p, req[p])

ListTripRequests(p) ==
    /\ pc[p] = "ls_call"
    /\ req[p].op = "ListTripRequests"
    /\ Browse(p, req[p])

BrowseMenu ==
    {ListRidesReq(l, f) : l \in {Null, 1, 2}, f \in BOOLEAN}
    \cup {ListTripRequestsReq(l, m) : l \in {Null, 1, 2}, m \in {Null, 1}}

\* the first request of a traversal carries no cursor
ArriveBrowse(p) ==
    /\ pc[p] = "idle"
    /\ \E q \in BrowseMenu : req' = [req EXCEPT ![p] = q]
    /\ Goto(p, "ls_call")
    /\ UNCHANGED <<db, ws, loc, res, now, tform>>

\* the next request repeats the first one with the nextCursor just received
FollowCursor(p) ==
    /\ pc[p] = "ls_got"
    /\ res[p].nextCursor # NoCursor
    /\ req' = [req EXCEPT ![p].cursor = res[p].nextCursor]
    /\ Goto(p, "ls_call")
    /\ UNCHANGED <<db, ws, loc, res, now, tform>>

InitBrowse ==
    /\ ws = [p \in Procs |-> EmptyWs]
    /\ pc = [p \in Procs |-> "idle"]
    /\ req = [p \in Procs |-> NoReq]
    /\ loc = [p \in Procs |-> NoLoc]
    /\ res = [p \in Procs |-> NoRes]
    /\ now = 0
    /\ tform = "index"
    /\ \E f \in [BrowseIds -> BrowseChoices] : db = BrowseDb(f)

NextBrowse ==
    \/ Tick
    \/ \E p \in BrowseClients :
        \/ ArriveBrowse(p)
        \/ ListRides(p)
        \/ ListTripRequests(p)
        \/ FollowCursor(p)

SpecBrowse == InitBrowse /\ [][NextBrowse]_vars

Received(p) == pc[p] = "ls_got"

SeenSet(p) == {loc[p].seen[i] : i \in 1..Len(loc[p].seen)}

\* the matching items that come after everything received so far
Remaining(p) ==
    {id \in Matching(req[p], loc[p].now) :
        \A i \in 1..Len(loc[p].seen) :
            Before(BrowseTable(req[p].op), loc[p].seen[i], id)}

\* C28: in a traversal that starts without a cursor and follows nextCursor, every
\* page holds at most limit items; the items received, page after page, are in
\* strictly ascending (earliest time, id) order, so none is received twice; each
\* matched the filters when the traversal began; nextCursor is null exactly when no
\* matching item remains after the page; and when it is null every item that then
\* matches has been received, so that a traversal during which the set of matching
\* items stayed the same received exactly that set, each item once.
C28_TraversalExactlyOnce ==
    \A p \in BrowseClients : Received(p) =>
        LET t == BrowseTable(req[p].op)
            seen == loc[p].seen
        IN  /\ Len(res[p].items) <= parseLimit(req[p].limit)
            /\ \A i \in 1..Len(seen) - 1 : Before(t, seen[i], seen[i + 1])
            /\ SeenSet(p) \subseteq Matching(req[p], loc[p].first)
            /\ (res[p].nextCursor = NoCursor) <=> (Remaining(p) = {})
            /\ res[p].nextCursor = NoCursor =>
                  /\ Matching(req[p], loc[p].now) \subseteq SeenSet(p)
                  /\ Matching(req[p], loc[p].first) = Matching(req[p], loc[p].now)
                        => SeenSet(p) = Matching(req[p], loc[p].first)

\* a traversal with limit 1 ended after three pages or more, the item of the first
\* page and the item of the second sharing their earliest time; a row that does
\* not match was left out
C28_Witness ==
    \E p \in BrowseClients :
        /\ Received(p) /\ res[p].nextCursor = NoCursor
        /\ req[p].limit = 1 /\ Len(loc[p].seen) >= 3
        /\ EarliestOf(BrowseTable(req[p].op), loc[p].seen[1])
              = EarliestOf(BrowseTable(req[p].op), loc[p].seen[2])
        /\ SeenSet(p) = Matching(req[p], loc[p].first)
        /\ \E id \in BrowseIds :
              /\ db[BrowseTable(req[p].op)][id] # NoRow
              /\ id \notin Matching(req[p], loc[p].first)

OfferStep(from, to) ==
    \/ from = "PENDING" /\ to \in {"ACCEPTED", "CANCELLED"}
    \/ from = "ACCEPTED" /\ to = "CANCELLED"

\* C29: the committed status of an offer changes only from PENDING to ACCEPTED, from
\* PENDING to CANCELLED or from ACCEPTED to CANCELLED: a CANCELLED offer stays
\* CANCELLED and an ACCEPTED offer never goes back to PENDING.
C29_OfferStatusOneWay ==
    [][\A o \in Ids :
          (db["offers"][o] # NoRow /\ db'["offers"][o].status # db["offers"][o].status)
              => OfferStep(db["offers"][o].status, db'["offers"][o].status)]_vars

RECURSIVE SeatsBookedIn(_)
SeatsBookedIn(S) ==
    IF S = {} THEN 0
    ELSE LET b == CHOOSE x \in S : TRUE
         IN  db["bookings"][b].seats + SeatsBookedIn(S \ {b})

ConfirmedBookingsOf(rideId) ==
    {b \in BookingRows :
        /\ db["bookings"][b].rideId = rideId
        /\ db["bookings"][b].status = "CONFIRMED"}

\* C30: in every committed state each ride's seatsAvailable equals its seatsTotal
\* minus the seats of its CONFIRMED bookings (so no booking's seats are released
\* twice).
C30_SeatsMatchConfirmedBookings ==
    \A id \in RideRows :
        db["rides"][id].seatsAvailable
            = db["rides"][id].seatsTotal - SeatsBookedIn(ConfirmedBookingsOf(id))

\* the rider of call p holds no CONFIRMED booking on the target ride and the key
\* of the call has no ledger row
FreshBooking(p) ==
    /\ ConfirmedOn(req[p].target, req[p].user) = {}
    /\ db["idem"][<<req[p].user, req[p].key, "BOOKING">>] = NoRow

\* the conditions of the conditional update, on the ride as committed
Bookable(p) ==
    LET r == db["rides"][req[p].target]
    IN  /\ r # NoRow
        /\ r.status = "ACTIVE"
        /\ r.departAt > now
        /\ r.seatsAvailable >= req[p].seats

Booking(p) == req[p].op = "CreateBooking" /\ pc'[p] # pc[p]

\* C31: for a CreateBooking call with a fresh key by a rider without a CONFIRMED
\* booking on the ride: the conditional update takes the seats exactly when the ride
\* exists, is ACTIVE, departs later than now and has the seats; a call whose update
\* matched no row ends without any change; a call whose update matched stays a
\* fresh one until it commits, is refused by no index, and commits the CONFIRMED
\* booking together with seatsAvailable reduced by the seats requested.
C31_BookedIffConditionsHold ==
    /\ [][\A p \in Procs : (Booking(p) /\ pc[p] = "bk_decr" /\ FreshBooking(p)) =>
            /\ Bookable(p) <=> pc'[p] = "bk_ins"
            /\ ~Bookable(p) => pc'[p] = "bk_why" /\ ws'[p] = ws[p]
            /\ db' = db]_vars
    /\ [][\A p \in Procs : (Booking(p) /\ pc[p] = "bk_why") =>
            /\ pc'[p] = "done" /\ res'[p].code \notin {200, 201}
            /\ db' = db]_vars
    /\ [][\A p \in Procs :
            (req[p].op = "CreateBooking" /\ pc[p] \in {"bk_ins", "bk_idem"}
               /\ pc'[p] = pc[p] /\ FreshBooking(p)) => FreshBooking(p)']_vars
    /\ [][\A p \in Procs :
            (Booking(p) /\ pc[p] \in {"bk_ins", "bk_idem"} /\ FreshBooking(p)) =>
                \/ pc[p] = "bk_ins" /\ pc'[p] = "bk_idem" /\ db' = db
                \/ /\ pc'[p] = "done" /\ res'[p] = Created(p)
                   /\ db'["bookings"][p]
                        = BookingRow(req[p].target, Null, "", req[p].user,
                                     req[p].seats, Null)
                   /\ db'["rides"][req[p].target].seatsAvailable
                        = db["rides"][req[p].target].seatsAvailable - req[p].seats]_vars

\* one call took its seats and was answered Created; a call of another rider for
\* more seats than were left, and one after the departure, changed nothing
C31_Witness ==
    \E p, q, r \in Procs :
        /\ req[p].op = "CreateBooking" /\ res[p] = Created(p)
        /\ req[q].op = "CreateBooking"
        /\ res[q] = Err(409, "Not enough seats available.")
        /\ req[r].op = "CreateBooking" /\ res[r] = Err(409, "Ride has departed.")
        /\ req[q].user # req[p].user /\ req[r].user # req[p].user
        /\ db["bookings"][q] = NoRow /\ db["bookings"][r] = NoRow
        /\ db["rides"][SeedId].seatsAvailable = SeedSeatsTotal - req[p].seats

TripRequestRows == {id \in Ids : db["trs"][id] # NoRow}

ConfirmedFor(tr) ==
    {b \in BookingRows :
        db["bookings"][b].tr = tr /\ db["bookings"][b].status = "CONFIRMED"}

\* C32: in every committed state each trip request has at most one CONFIRMED
\* booking.
C32_OneConfirmedPerTripRequest ==
    \A tr \in TripRequestRows : Cardinality(ConfirmedFor(tr)) <= 1

\* C33: a committed ledger row is never changed and never deleted, by any step of
\* any operation; and a create call that starts while its (actor, key, kind) has a
\* committed row is answered with the entity that row names.
C33_LedgerRowIsForever ==
    /\ [][\A t \in Triples : db["idem"][t] # NoRow => db'["idem"][t] = db["idem"][t]]_vars
    /\ [][\A p \in Procs : (pc'[p] # pc[p] /\ LedgerHit(p)) =>
            /\ res'[p].code = 200
            /\ res'[p].id = EntityId(LedgerRowOf(p))
            /\ db'["idem"] = db["idem"]]_vars

\* the key of an offer came back after the offer had been cancelled: the call was
\* answered with that offer, and its ledger row is as it was (calls answered one
\* at a time, in the order of their numbers)
C33_Witness ==
    \E c, q \in Procs :
        /\ c < q
        /\ req[c].op = "CancelOffer" /\ req[c].target = SeedId /\ res[c].code = 200
        /\ req[q].op = "CreateOffer" /\ req[q].user = db["offers"][SeedId].driver
        /\ Done(q) /\ res[q] = Replay(SeedId)
        /\ db["offers"][SeedId].status = "CANCELLED"
        /\ db["idem"][<<req[q].user, req[q].key, "OFFER">>] = IdemRow("OFFER", SeedId)

\* ------------------------------------------------- a ledger with stale rows
\* the state the cleanup branches of the handlers are written for: a ledger row
\* whose entity reference is empty, one of each kind, beside the rows of InitSeq
StaleRow(kind) == [IdemRow(kind, Null) EXCEPT !.kind = kind]

StaleKey == NKeys

StaleTriples ==
    {<<"u2", StaleKey, "RIDE">>, <<"u2", StaleKey, "TRIP_REQUEST">>,
     <<"u3", StaleKey, "OFFER">>, <<"u1", StaleKey, "BOOKING">>}

StaleMenu ==
    {CreateRideReq("u2", k, SeedSeatsTotal) : k \in Keys}
    \cup {CreateTripRequestReq("u2", k) : k \in Keys}
    \cup {CreateOfferReq("u3", k, SeedId, t[1], t[2]) : k \in Keys, t \in OfferTerms}
    \cup {CreateBookingReq("u1", k, SeedId, n) : k \in Keys, n \in ValidSeats}

InitStale ==
    /\ InitCommon
    /\ db = [Upsert(Upsert(Upsert(EmptyDb, "u1"), "u2"), "u3") EXCEPT
               !.rides[SeedId] = RideRow("u3", SeedSeatsTotal, SeedDepartAt),
               !.trs[SeedId] = TripRequestRow("u1"),
               !.offers[SeedId] = OfferRow(SeedId, "u2", "u1", 1, 5),
               !.idem = [t \in Triples |->
                           IF t \in StaleTriples THEN StaleRow(t[3])
                           ELSE IF t = <<"u3", 1, "RIDE">> THEN IdemRow("RIDE", SeedId)
                           ELSE IF t = <<"u1", 1, "TRIP_REQUEST">>
                                THEN IdemRow("TRIP_REQUEST", SeedId)
                           ELSE IF t = <<"u2", 1, "OFFER">> THEN IdemRow("OFFER", SeedId)
                           ELSE NoRow]]

ArriveStale(p) ==
    /\ \A q \in Procs : pc[q] \in {"idle", "done"}
    /\ \E r \in StaleMenu : Arrive(p, r)

NextStale ==
    \E p \in Procs :
        \/ ArriveStale(p)
        \/ CreateRideFastPath(p)
        \/ CreateRideInsert(p)
        \/ CreateRideIdem(p)
        \/ CreateTripRequestFastPath(p)
        \/ CreateTripRequestInsert(p)
        \/ CreateTripRequestIdem(p)
        \/ CreateBookingFastPath(p)
        \/ CreateBookingDecrement(p)
        \/ CreateBookingWhy(p)
        \/ CreateBookingInsert(p)
        \/ CreateBookingIdem(p)
        \/ CreateBookingRetry(p)
        \/ CreateOfferFastPath(p)
        \/ CreateOfferTripRequest(p)
        \/ CreateOfferExisting(p)
        \/ CreateOfferInsert(p)
        \/ CreateOfferIdem(p)

SpecStale == InitStale /\ [][NextStale]_vars

\* a create call is about to run and the ledger row of its (actor, key, kind) names
\* no entity
LedgerStale(p) ==
    /\ req[p].op \in CreateOps
    /\ pc[p] = FirstLabel(req[p].op)
    /\ LedgerRowOf(p) # NoRow
    /\ \/ EntityId(LedgerRowOf(p)) = Null
       \/ db[TableOf(req[p].op)][EntityId(LedgerRowOf(p))] = NoRow

Entities(d) == <<d["rides"], d["trs"], d["offers"], d["bookings"], d["idem"]>>

Refusals == {403, 404, 409}

\* C35: a step that changes a committed ride, trip request, offer, booking or
\* ledger row is the last step of its call, and that call is not answered NotFound,
\* Forbidden or Conflict: a call answered with one of these has committed nothing.
C35_RefusedCallsCommitNothing ==
    [][\A p \in Procs :
          (pc'[p] # pc[p] /\ Entities(db') # Entities(db)) =>
              /\ pc'[p] = "done"
              /\ res'[p].code \notin Refusals]_vars

\* two acceptances raced for one trip request: the one refused by the index had
\* already written its offer update, and left no trace of it
C35_Witness ==
    \E p, q \in Procs :
        /\ req[p].op = "AcceptOffer" /\ res[p].code = 200
        /\ req[q].op = "AcceptOffer" /\ req[q].target # req[p].target
        /\ Done(q) /\ res[q] = Err(409, "Conflict") /\ loc[q].caught = "P2002"
        /\ db["offers"][req[q].target].status = "CANCELLED"
        /\ db["bookings"][q] = NoRow
        /\ Cardinality(ConfirmedFor(SeedId)) = 1

AcceptedOn(tr) ==
    {o \in OfferRows :
        db["offers"][o].tr = tr /\ db["offers"][o].status = "ACCEPTED"}

\* C36: in every committed state a trip request is CLOSED exactly when one of its
\* offers is ACCEPTED, and ACTIVE exactly when none is.
C36_ClosedIffAccepted ==
    \A tr \in TripRequestRows :
        /\ db["trs"][tr].status = "CLOSED" <=> Cardinality(AcceptedOn(tr)) = 1
        /\ db["trs"][tr].status = "ACTIVE" <=> AcceptedOn(tr) = {}

\* bookings created by AcceptOffer: no ride reference
MatchedBookings ==
    {b \in BookingRows : db["bookings"][b].rideId = Null}

OwnerOf(t, id) ==
    CASE t = "rides" -> db["rides"][id].driver
      [] t = "trs" -> db["trs"][id].rider
      [] t = "offers" -> db["offers"][id].driver
      [] t = "bookings" -> db["bookings"][id].rider

\* a create call has been answered with an entity
Answered(p) == req[p].op \in CreateOps /\ Succeeded(p) /\ res[p].id # Null

\* C38: the ledger is looked up by (actor, key, kind): a create call whose own
\* triple has no ledger row is never answered from the ledger in its first step,
\* whatever rows other actors or other kinds hold under the same key; two answered
\* create calls that share a key but differ in actor or kind hold different
\* entities; and the entity a create call is answered with was created by the caller.
C38_LedgerScopedByTriple ==
    /\ [][\A p \in Procs :
            (/\ req[p].op \in CreateOps
             /\ pc[p] = FirstLabel(req[p].op) /\ pc'[p] # pc[p]
             /\ LedgerRowOf(p) = NoRow) => pc'[p] # "done"]_vars
    /\ [](\A p, q \in Procs :
            (/\ p # q /\ Answered(p) /\ Answered(q)
             /\ req[p].key = req[q].key
             /\ <<req[p].user, req[p].op>> # <<req[q].user, req[q].op>>) =>
                <<req[p].op, res[p].id>> # <<req[q].op, res[q].id>>)
    /\ [](\A p \in Procs :
            Answered(p) => OwnerOf(TableOf(req[p].op), res[p].id) = req[p].user)

\* one key used by two actors for a ride and by one of them for a trip request
\* too, after the seed rows were created under that key by other actors: three
\* first uses
C38_Witness ==
    \E p, q, r \in Procs :
        /\ req[p].op = "CreateRide" /\ req[q].op = "CreateRide"
        /\ req[r].op = "CreateTripRequest"
        /\ req[p].user # req[q].user /\ req[r].user = req[q].user
        /\ req[p].key = req[q].key /\ req[q].key = req[r].key
        /\ db["idem"][<<db["rides"][SeedId].driver, req[p].key, "RIDE">>] # NoRow
        /\ res[p] = Created(p) /\ res[q] = Created(q) /\ res[r] = Created(r)
        /\ db["rides"][p].driver = req[p].user
        /\ db["rides"][q].driver = req[q].user
        /\ db["trs"][r].rider = req[r].user

\* ------------------------------------------- after an acceptance, one at a time
\* a trip request of rider u1 with the offer of driver u2 accepted and the offer
\* of driver u3 cancelled as the loser, as CreateTripRequest, two CreateOffer calls
\* and AcceptOffer leave them
InitReopen ==
    /\ InitCommon
    /\ db = [Upsert(Upsert(Upsert(EmptyDb, "u1"), "u2"), "u3") EXCEPT
               !.trs[SeedId] = [TripRequestRow("u1") EXCEPT !.status = "CLOSED"],
               !.idem[<<"u1", 1, "TRIP_REQUEST">>] = IdemRow("TRIP_REQUEST", SeedId),
               !.offers[SeedId] =
                    [OfferRow(SeedId, "u2", "u1", 1, 5) EXCEPT !.status = "ACCEPTED"],
               !.idem[<<"u2", 1, "OFFER">>] = IdemRow("OFFER", SeedId),
               !.offers[SecondSeedId] =
                    [OfferRow(SeedId, "u3", "u1", 2, 0) EXCEPT !.status = "CANCELLED"],
               !.idem[<<"u3", 1, "OFFER">>] = IdemRow("OFFER", SecondSeedId),
               !.bookings[SeedId] = BookingRow(Null, SeedId, "u2", "u1", 1, 5)]

ArriveReopen(p) ==
    /\ \A q \in Procs : pc[q] \in {"idle", "done"}
    /\ \E r \in OfferMenu : Arrive(p, r)

NextReopen ==
    \E p \in Procs :
        \/ ArriveReopen(p)
        \/ CreateOfferFastPath(p)
        \/ CreateOfferTripRequest(p)
        \/ CreateOfferExisting(p)
        \/ CreateOfferInsert(p)
        \/ CreateOfferIdem(p)
        \/ AcceptOfferRead(p)
        \/ AcceptOfferFindAccepted(p)
        \/ AcceptOfferUpdate(p)
        \/ AcceptOfferIndex(p)
        \/ AcceptOfferClose(p)
        \/ AcceptOfferCancelOthers(p)
        \/ CancelOfferRead(p)
        \/ CancelOfferUpdate(p)
        \/ CancelOfferBookings(p)
        \/ CancelOfferReopen(p)
        \/ CancelBookingRead(p)
        \/ CancelBookingUpdate(p)
        \/ CancelBookingSeats(p)

SpecReopen == InitReopen /\ [][NextReopen]_vars

\* the call of p ends in this step
Ends(p) == pc[p] # "done" /\ pc'[p] = "done"

CancelledOffers == {o \in OfferRows : db["offers"][o].status = "CANCELLED"}
CancelledBookings == {b \in BookingRows : db["bookings"][b].status = "CANCELLED"}

\* the rider cancels an offer that is ACCEPTED
RiderCancelsAccepted(p) ==
    /\ req[p].op = "CancelOffer"
    /\ db["offers"][req[p].target] # NoRow
    /\ db["offers"][req[p].target].rider = req[p].user
    /\ db["offers"][req[p].target].status = "ACCEPTED"

\* the rider accepts a PENDING offer on a trip request that was reopened: it is
\* ACTIVE and has a CANCELLED booking
RiderAcceptsAfterReopen(p) ==
    /\ req[p].op = "AcceptOffer"
    /\ db["offers"][req[p].target] # NoRow
    /\ db["offers"][req[p].target].rider = req[p].user
    /\ db["offers"][req[p].target].status = "PENDING"
    /\ db["trs"][db["offers"][req[p].target].tr].status = "ACTIVE"
    /\ \E b \in CancelledBookings :
          db["bookings"][b].tr = db["offers"][req[p].target].tr

\* C39: requests answered one at a time. (a) The rider's CancelOffer on an ACCEPTED
\* offer ends with 200 and leaves the offer CANCELLED and its trip request ACTIVE.
\* (b) No step changes an offer that is CANCELLED or a booking that is CANCELLED.
\* (c) A CreateOffer with an unused key on an ACTIVE trip request, by a driver with
\* no PENDING or ACCEPTED offer on it, creates a PENDING offer, also when the driver
\* has a CANCELLED offer on it. (d) The rider's AcceptOffer on a PENDING offer of a
\* reopened trip request ends with 200, the offer ACCEPTED, the trip request CLOSED
\* and a new CONFIRMED booking for that trip request and driver.
C39_ReopenedTripRequestAcceptsAgain ==
    /\ [][\A p \in Procs : (RiderCancelsAccepted(p) /\ Ends(p)) =>
            /\ res'[p].code = 200
            /\ db'["offers"][req[p].target].status = "CANCELLED"
            /\ db'["trs"][db["offers"][req[p].target].tr].status = "ACTIVE"]_vars
    /\ [][/\ \A o \in CancelledOffers : db'["offers"][o] = db["offers"][o]
          /\ \A b \in CancelledBookings : db'["bookings"][b] = db["bookings"][b]]_vars
    /\ [][\A p \in Procs :
            (/\ req[p].op = "CreateOffer" /\ Ends(p)
             /\ LedgerRowOf(p) = NoRow
             /\ db["trs"][req[p].target] # NoRow
             /\ db["trs"][req[p].target].status = "ACTIVE"
             /\ db["trs"][req[p].target].rider # req[p].user
             /\ ActiveOf(req[p].target, req[p].user) = {}) =>
                /\ res'[p] = Created(p)
                /\ db'["offers"][p] # NoRow
                /\ db'["offers"][p].status = "PENDING"]_vars
    /\ [][\A p \in Procs : (RiderAcceptsAfterReopen(p) /\ Ends(p)) =>
            /\ res'[p].code = 200
            /\ db'["offers"][req[p].target].status = "ACCEPTED"
            /\ db'["trs"][db["offers"][req[p].target].tr].status = "CLOSED"
            /\ db["bookings"][p] = NoRow
            /\ db'["bookings"][p] =
                  BookingRow(Null, db["offers"][req[p].target].tr,
                             db["offers"][req[p].target].driver, req[p].user,
                             db["offers"][req[p].target].seats,
                             db["offers"][req[p].target].price)]_vars

\* the rider cancelled the accepted offer, its driver made a new offer with a new
\* key, and the rider accepted it: the trip request is CLOSED again, the first
\* booking CANCELLED and the new one CONFIRMED, the loser still CANCELLED
C39_Witness ==
    \E c, o, a \in Procs :
        /\ c < o /\ o < a
        /\ req[c] = CancelOfferReq("u1", SeedId) /\ res[c].code = 200
        /\ req[o].op = "CreateOffer" /\ req[o].user = "u2" /\ req[o].key = 2
        /\ res[o] = Created(o)
        /\ req[a] = AcceptOfferReq("u1", o) /\ Done(a) /\ res[a].code = 200
        /\ db["trs"][SeedId].status = "CLOSED"
        /\ db["offers"][SeedId].status = "CANCELLED"
        /\ db["offers"][SecondSeedId].status = "CANCELLED"
        /\ db["offers"][o].status = "ACCEPTED"
        /\ db["bookings"][SeedId].status = "CANCELLED"
        /\ db["bookings"][a].status = "CONFIRMED"

\* the CANCELLED bookings of a rider on a ride
CancelledOn(rideId, rider) ==
    {b \in CancelledBookings :
        /\ db["bookings"][b].rideId = rideId
        /\ db["bookings"][b].rider = rider}

\* a CreateBooking call with a fresh key by a rider whose bookings on the ride are
\* CANCELLED, one at least
Rebooking(p) ==
    /\ req[p].op = "CreateBooking"
    /\ FreshBooking(p)
    /\ CancelledOn(req[p].target, req[p].user) # {}

\* C40: a CreateBooking call with a fresh key, by a rider who has a CANCELLED and no
\* CONFIRMED booking on the ride, takes its seats whenever the ride is ACTIVE, not
\* departed and has them; no index refuses its booking; it commits as Created, with
\* the CANCELLED bookings as they were, the new booking the rider's only CONFIRMED
\* one on the ride, and seatsAvailable reduced by the seats of the new booking.
C40_CancelledBookingDoesNotBlock ==
    /\ [][\A p \in Procs :
            (Booking(p) /\ pc[p] = "bk_decr" /\ Rebooking(p) /\ Bookable(p)) =>
                pc'[p] = "bk_ins" /\ db' = db]_vars
    /\ [][\A p \in Procs :
            (Booking(p) /\ pc[p] \in {"bk_ins", "bk_idem"} /\ Rebooking(p)) =>
                \/ pc[p] = "bk_ins" /\ pc'[p] = "bk_idem" /\ db' = db
                \/ /\ pc'[p] = "done" /\ res'[p] = Created(p)
                   /\ \A b \in CancelledOn(req[p].target, req[p].user) :
                         db'["bookings"][b] = db["bookings"][b]
                   /\ ConfirmedOn(req[p].target, req[p].user)' = {p}
                   /\ db'["bookings"][p].seats = req[p].seats
                   /\ db'["rides"][req[p].target].seatsAvailable
                        = db["rides"][req[p].target].seatsAvailable - req[p].seats]_vars

\* a rider booked, cancelled, and booked again with another key and another number
\* of seats: one CANCELLED and one CONFIRMED booking, and the seats of the second
\* only are taken
C40_Witness ==
    \E p, c, q \in Procs :
        /\ p < c /\ c < q
        /\ req[p].op = "CreateBooking" /\ res[p] = Created(p)
        /\ req[c] = CancelBookingReq(req[p].user, p) /\ Done(c) /\ res[c].code = 200
        /\ req[q].op = "CreateBooking" /\ req[q].user = req[p].user
        /\ req[q].target = req[p].target /\ req[q].key # req[p].key
        /\ req[q].seats # req[p].seats
        /\ res[q] = Created(q)
        /\ db["bookings"][p].status = "CANCELLED"
        /\ db["bookings"][q].status = "CONFIRMED"
        /\ db["rides"][req[q].target].seatsAvailable = SeedSeatsTotal - req[q].seats


====
